---- MODULE Spec2Model ----
(***************************************************************************)
(* Model of the wiki -> Gemini RAG synchronisation service.                *)
(*                                                                         *)
(* The service is a single Node.js process: one thread, cooperative        *)
(* scheduling.  A task (an HTTP request handler and the async functions it *)
(* calls) runs until it reaches an await on real I/O; only then may        *)
(* another task run.  `running` is the task that holds the thread; every   *)
(* action of the model is one such synchronous stretch of code, from one   *)
(* suspension point to the next.  An await on a promise that is already    *)
(* settled resumes in a microtask, before any other request handler, so it *)
(* is not a suspension point of the model.                                 *)
(*                                                                         *)
(* Files of the export directory and the bytes of the images change only   *)
(* between sync runs (EnvSetDir, EnvSetImage).  getImageHash is MD5; the   *)
(* model takes it to be injective on the bytes it is applied to.           *)
(***************************************************************************)
EXTENDS Integers, Sequences, FiniteSets, TLC

\* ------------------------------------------------------------- bounds
NumCallers == 2
MaxDocs == 2
MaxImages == 2
MaxBytes == 2
MaxStores == 2
MaxBatches == 2
MaxTerms == 1
MaxWikiDocs == 3
MaxRaw == 2
MaxSyns == 2

Callers == 1..NumCallers
Images == 1..MaxImages
Bytes == 1..MaxBytes
Terms == 1..MaxTerms
NoStore == 0

\* A file of FILES_DIR: the exported documents are <base>.json; one other
\* file (notes.txt) may lie beside them.
JsonFile(n) == [base |-> n, ext |-> "json"]
OtherFile == [base |-> 0, ext |-> "txt"]
AllFiles == {JsonFile(n) : n \in 1..MaxDocs} \cup {OtherFile}

VARIABLES
    \* ---- persisted and remote state
    dirExists,          \* fs.existsSync(FILES_DIR)
    dirFiles,           \* the files in FILES_DIR
    imgBytes,           \* image -> bytes of the file in IMAGES_DIR
    hashFile,           \* image-hash-cache.json: [exists, recs]
    synFile,            \* synonyms.json: [exists, entries]
    stores,             \* remote stores named DATASET_NAME: id -> uploaded items
    storeSeq,           \* number of stores the service has created so far
    \* ---- the process
    syncRunning,        \* let syncRunning
    running,            \* the tasks holding the thread: {} or one caller
    pc,                 \* caller -> where its call of POST /gemini/sync stands
    outcome,            \* caller -> how its last call ended
    ret,                \* caller -> the value its last call returned
    synonymConfigs,     \* const synonymConfigs: the index loaded when the process started
    lastResponse,       \* the status of the last response the route has sent
    \* ---- locals of the sync run in progress
    textFiles, existingStore, storeName, docIdx, textFilesUploaded,
    batchNo, nBatches, results, attempt,
    images, imgIdx, hashCache, processedInThisRun, hash, uploadedImages, uploadResp,
    \* ---- history of the last accepted run (not program state)
    steps,              \* the phases of the run, in the order they were entered
    created,            \* the store the run has created, or NoStore
    analysed,           \* the images whose analysis the run has requested
    skippedHit,         \* the images the run has skipped on a hash match
    cacheAtStart,       \* the records of the hash cache file when the run was accepted
    errLog,             \* the items whose failure the run has logged
    \* ---- generateSynonyms: the batching of the documents
    batchPc,            \* "idle", "ready" (documents read) or "done"
    wikiDocs,           \* wikiDocs: the documents with content, as [name, len]
    submitted,          \* the batches handed to extractBatch, in order
    \* ---- generateSynonyms: the merge of the batch results
    mergePc,            \* "idle", "ready" (batches extracted) or "done"
    rawResults,         \* results: the entries the batches have returned
    finalOutput,        \* finalOutput: the entries written to synonyms.json
    \* ---- searchWiki: one query
    qPc,                \* where the call of searchWiki stands
    question,           \* query: the question asked
    synonymEntries,     \* let synonymEntries: the index loaded with the module
    relevant,           \* relevant: the entries findRelevantSynonyms returned
    synonymContext,     \* synonymContext: the block put into the rewrite prompt
    rewriteResp,        \* how the rewrite call ended: "none", "ok" or "fail"
    rewriteQuestion,    \* rewriteQuestion: the text the rewrite returned
    retryCounter,       \* let retryCounter
    answerCalls,        \* the texts sent to the answer generation, in order
    answer,             \* what searchWiki returned, or NoResult
    rewriteCalls,       \* how often the rewrite model has been called
    answerResps,        \* the texts the answer generation has returned
    boundary,           \* who has called searchWiki: "slack" or "route"
    delivered,          \* what the caller of the boundary has been sent
    \* ---- chunkSynonyms: one call
    chunkPc,            \* "idle", "ready" (called) or "done"
    synonymList,        \* synonyms: the terms to chunk
    maxLen,             \* maxLen
    chunks,             \* chunks: the strings returned
    \* ---- syncWikiToGeminiRag: the metadata of one document
    metaPc,             \* "idle", "ready" (document read) or "done"
    metaTitle,          \* json.title
    metaFile,           \* file: the name of the document file
    metaSynonyms,       \* synonyms: what getSynonymsForContent returned
    metadata,           \* metadata: the list handed to uploadTextToRag
    \* ---- splitIntoSlackChunks: one call
    splitPc,            \* "idle", "loop" (called, at the loop head) or "done"
    slackText,          \* text
    maxSize,            \* maxSize
    remaining,          \* let remaining
    parts,              \* parts: the chunks so far
    \* ---- a sync run: its extraction calls and document uploads at the service
    callPc,             \* "idle", "ready", "extract", "cooldown", "upload" or "done"
    callBatches,        \* the number of batches the run submits
    callDocs,           \* textFiles.length
    callBatch,          \* the batch whose extraction is awaited
    callAttempt,        \* attempt
    callDoc,            \* the document whose upload is awaited
    openCalls,          \* the extraction requests the service has not yet answered
    openUploads,        \* the upload requests the service has not yet answered
    callLog,            \* the events of the run, in order
    \* ---- rateLimiter: the requests of the Slack users
    ratePc,             \* "idle" or "serving"
    now,                \* Date.now(), as an index of ClockValues
    userRateLimit,      \* const userRateLimit: user -> entry, or NoEntry
    forwarded,          \* user -> clock index -> the requests passed to next() then
    requests,           \* the number of requests received so far
    lastReply,          \* what the last request was answered
    \* ---- sendSlackAnswer: one answer
    sendPc,             \* "idle", "ready", "single", "parts", "done" or "failed"
    slackAnswer,        \* answer
    sendChunks,         \* chunks
    sendIdx,            \* i
    posting,            \* the text of the post that is awaited
    posts,              \* the texts Slack has received, in order
    \* ---- processImagesToRag: one pass
    passPc,             \* "idle", "ready", "analyze", "upload" or "done"
    passImages,         \* images
    passIdx,            \* the index of the image in hand
    passCache,          \* hashCache
    passFile,           \* the hash cache file
    passProcessed,      \* processedInThisRun
    passDescription,    \* description
    passCount,          \* uploadedImages
    passLog,            \* the events of the pass, in order
    \* ---- the synonym index between the sync and the queries
    indexPc,            \* "unloaded" or "loaded": the query module
    indexFile,          \* the entries of synonyms.json
    indexSyncs,         \* the sync runs that have completed
    indexedAt           \* where the query was when the last one completed

persist == <<dirExists, dirFiles, imgBytes, hashFile, synFile, stores, storeSeq>>
ctl == <<syncRunning, running, pc, outcome, ret, synonymConfigs, lastResponse>>
syncLocals == <<textFiles, existingStore, storeName, docIdx, textFilesUploaded>>
genLocals == <<batchNo, nBatches, results, attempt>>
imgLocals == <<images, imgIdx, hashCache, processedInThisRun, hash, uploadedImages, uploadResp>>
history == <<steps, created, analysed, skippedHit, cacheAtStart, errLog>>
syncVars == <<persist, ctl, syncLocals, genLocals, imgLocals, history>>
batchVars == <<batchPc, wikiDocs, submitted>>
mergeVars == <<mergePc, rawResults, finalOutput>>
queryVars == <<qPc, question, synonymEntries, relevant, synonymContext,
               rewriteResp, rewriteQuestion, retryCounter, answerCalls, answer,
               rewriteCalls, answerResps, boundary, delivered>>
chunkVars == <<chunkPc, synonymList, maxLen, chunks>>
metaVars == <<metaPc, metaTitle, metaFile, metaSynonyms, metadata>>
splitVars == <<splitPc, slackText, maxSize, remaining, parts>>
callVars == <<callPc, callBatches, callDocs, callBatch, callAttempt, callDoc,
              openCalls, openUploads, callLog>>
rateVars == <<ratePc, now, userRateLimit, forwarded, requests, lastReply>>
sendVars == <<sendPc, slackAnswer, sendChunks, sendIdx, posting, posts>>
passVars == <<passPc, passImages, passIdx, passCache, passFile, passProcessed,
              passDescription, passCount, passLog>>
indexVars == <<indexPc, indexFile, indexSyncs, indexedAt>>
vars == <<syncVars, batchVars, mergeVars, queryVars, chunkVars, metaVars,
         splitVars, callVars, rateVars, sendVars, passVars, indexVars>>

\* The parts of the service are modelled one at a time: while one is
\* exercised (g) the state of the others stays as it is.
Frame(g) ==
    /\ IF g = "sync" THEN TRUE ELSE UNCHANGED syncVars
    /\ IF g = "batch" THEN TRUE ELSE UNCHANGED batchVars
    /\ IF g = "merge" THEN TRUE ELSE UNCHANGED mergeVars
    /\ IF g = "query" THEN TRUE ELSE UNCHANGED queryVars
    /\ IF g = "chunk" THEN TRUE ELSE UNCHANGED chunkVars
    /\ IF g = "meta" THEN TRUE ELSE UNCHANGED metaVars
    /\ IF g = "split" THEN TRUE ELSE UNCHANGED splitVars
    /\ IF g = "calls" THEN TRUE ELSE UNCHANGED callVars
    /\ IF g = "rate" THEN TRUE ELSE UNCHANGED rateVars
    /\ IF g = "send" THEN TRUE ELSE UNCHANGED sendVars
    /\ IF g = "pass" THEN TRUE ELSE UNCHANGED passVars
    /\ IF g = "index" THEN TRUE ELSE UNCHANGED indexVars

BatchIdle == batchPc = "idle" /\ wikiDocs = <<>> /\ submitted = <<>>
MergeIdle == mergePc = "idle" /\ rawResults = <<>> /\ finalOutput = <<>>

ChunkIdle ==
    chunkPc = "idle" /\ synonymList = <<>> /\ maxLen = 1 /\ chunks = <<>>

MetaIdle ==
    /\ metaPc = "idle" /\ metaTitle = <<>> /\ metaFile = <<>>
    /\ metaSynonyms = <<>> /\ metadata = <<>>

SplitIdle ==
    /\ splitPc = "idle" /\ slackText = <<>> /\ maxSize = 1
    /\ remaining = <<>> /\ parts = <<>>

CallsIdle ==
    /\ callPc = "idle" /\ callBatches = 0 /\ callDocs = 0
    /\ callBatch = 0 /\ callAttempt = 0 /\ callDoc = 0
    /\ openCalls = {} /\ openUploads = {}
    /\ callLog = <<>>

RateIdle ==
    ratePc = "idle" /\ now = 0 /\ userRateLimit = <<>> /\ forwarded = <<>> /\ requests = 0 /\ lastReply = <<>>

SendIdle ==
    /\ sendPc = "idle" /\ slackAnswer = <<>>
    /\ sendChunks = <<>> /\ sendIdx = 0
    /\ posting = <<>> /\ posts = <<>>

PassIdle ==
    /\ passPc = "idle" /\ passImages = <<>> /\ passIdx = 0
    /\ passCache = <<>>
    /\ passFile = [exists |-> FALSE, recs |-> <<>>]
    /\ passProcessed = {} /\ passDescription = "none"
    /\ passCount = 0 /\ passLog = <<>>

IndexIdle ==
    /\ indexPc = "unloaded" /\ indexFile = <<>>
    /\ indexSyncs = 0 /\ indexedAt = "none"

NoResult == [answer |-> "none"]

NoReply == [status |-> "none", text |-> <<>>]

QueryIdle ==
    /\ qPc = "idle" /\ question = <<>> /\ synonymEntries = <<>>
    /\ boundary = "none" /\ delivered = NoReply
    /\ relevant = <<>> /\ synonymContext = <<>>
    /\ rewriteResp = "none" /\ rewriteQuestion = <<>>
    /\ retryCounter = 0 /\ answerCalls = <<>> /\ answer = NoResult
    /\ rewriteCalls = 0 /\ answerResps = <<>>

\* ------------------------------------------------------------ helpers
EmptyMap == [x \in {} |-> 0]
NoHash == <<"md5", 0>>

getImageHash(bytes) == <<"md5", bytes>>

IsJson(f) == f.ext = "json"

RECURSIVE SortByBase(_)
SortByBase(S) ==
    IF S = {} THEN <<>>
    ELSE LET m == CHOOSE f \in S : \A g \in S : f.base <= g.base
         IN <<m>> \o SortByBase(S \ {m})

\* fs.readdirSync(FILES_DIR).filter(f => f.endsWith(".json"))
ReadTextFiles(files) == SortByBase({f \in files : IsJson(f)})

\* fs.readdirSync(IMAGES_DIR).filter(...): the images, in name order
ReadImages == [i \in 1..MaxImages |-> i]

loadHashCache(file) == IF file.exists THEN file.recs ELSE EmptyMap

saveHashCache(cache) == [exists |-> TRUE, recs |-> cache]

clearImageHashCacheNoop(file) == file

clearImageHashCache(file) == [exists |-> FALSE, recs |-> EmptyMap]

Undefined == [defined |-> FALSE, textFilesUploaded |-> 0, imageFilesUploaded |-> 0, store |-> NoStore]

SyncResult(tfu, imgs, store) ==
    [defined |-> TRUE, textFilesUploaded |-> tfu, imageFilesUploaded |-> imgs, store |-> store]

\* Lines 25-28: the synonym index is read from synonyms.json once, when the
\* module is loaded.
LoadSynonymConfigs(file) == IF file.exists THEN file.entries ELSE {}

\* The content of document f holds term t (or one of its synonyms).
Mentions(f, t) == t <= f.base

\* Lines 57-79: the clusters of the loaded index that the document mentions.
getSynonymsForContent(f) == {t \in synonymConfigs : Mentions(f, t)}

DocItem(f) ==
    [kind |-> "doc", name |-> f.base, digest |-> NoHash, syn |-> getSynonymsForContent(f)]
ImageItem(i, h) == [kind |-> "img", name |-> i, digest |-> h, syn |-> {}]

\* The failure that the catch of generateSynonyms logs (line 337).
GenItem == [kind |-> "synonyms", name |-> 0, digest |-> NoHash, syn |-> {}]

\* The route of POST /gemini/sync (lines 198-205): the result as JSON, or
\* status 500 when syncWikiToGeminiRag has thrown.
RouteResponse(out) == IF out = "thrown" THEN "500" ELSE "200"

\* The run enters phase p (a phase entered again is not listed twice in a row).
Did(stp, p) == IF stp # <<>> /\ stp[Len(stp)] = p THEN stp ELSE Append(stp, p)

InRun(p) == p \notin {"idle", "checked", "returned"}

Idle == running = {} /\ \A c \in Callers : pc[c] = "idle"

\* ------------------------------------------------------------ the guard
\* After the test of syncRunning at line 389 the call falls through to line
\* 394 without an await: the task keeps the thread.
AfterCheckAwait(c) == {}

AfterCheck(c) == {c}

\* The rejected call returns at line 391, before the try: no finally runs.
FlagAfterRejectInsideTry(flag) == FALSE

FlagAfterReject(flag) == flag

\* finally { syncRunning = false } runs however the try block ended.
FlagAfterRunNoFinally(out) == out # "ok"

FlagAfterRun(out) == FALSE

\* Validation, lines 402-412.
ValidationFailsExistsOnly(exists, files) == ~exists

ValidationFails(exists, files) == ~exists \/ Len(ReadTextFiles(files)) = 0

\* SetUpFileSearchStore returns the name of the store it has created (line 386).
StoreNameFoundFirst(found, new) == IF found # NoStore THEN found ELSE new

StoreNameAfterSetUp(found, new) == new

ResetLocals ==
    /\ textFiles' = <<>>
    /\ existingStore' = NoStore
    /\ storeName' = NoStore
    /\ docIdx' = 0
    /\ textFilesUploaded' = 0
    /\ batchNo' = 0
    /\ nBatches' = 0
    /\ results' = {}
    /\ attempt' = 0
    /\ images' = <<>>
    /\ imgIdx' = 0
    /\ hashCache' = EmptyMap
    /\ processedInThisRun' = {}
    /\ hash' = NoHash
    /\ uploadedImages' = 0
    /\ uploadResp' = "none"

ResetHistory ==
    /\ steps' = <<>>
    /\ created' = NoStore
    /\ analysed' = {}
    /\ skippedHit' = {}
    /\ cacheAtStart' = EmptyMap
    /\ errLog' = {}

\* The end of an accepted run: return (or the catch at line 465), then finally.
Return(c, out, val) ==
    /\ pc' = [pc EXCEPT ![c] = "returned"]
    /\ outcome' = [outcome EXCEPT ![c] = out]
    /\ ret' = [ret EXCEPT ![c] = val]
    /\ syncRunning' = FlagAfterRun(out)
    /\ running' = {}
    /\ UNCHANGED <<synonymConfigs, lastResponse>>
    /\ ResetLocals

\* The run's error reaches the catch at line 465: logged, nothing returned.
Fail(c) ==
    /\ Return(c, "failed", Undefined)
    /\ UNCHANGED <<persist, history>>

Suspend(c, p) ==
    /\ pc' = [pc EXCEPT ![c] = p]
    /\ running' = {}
    /\ UNCHANGED <<syncRunning, outcome, ret, synonymConfigs, lastResponse>>

SyncInit ==
    /\ dirExists \in BOOLEAN
    /\ dirFiles \in SUBSET AllFiles
    /\ (~dirExists => dirFiles = {})
    /\ imgBytes \in [Images -> Bytes]
    /\ hashFile = [exists |-> FALSE, recs |-> EmptyMap]
    /\ synFile = [exists |-> FALSE, entries |-> {}]
    /\ stores = EmptyMap
    /\ storeSeq = 0
    /\ syncRunning = FALSE
    /\ running = {}
    /\ pc = [c \in Callers |-> "idle"]
    /\ outcome = [c \in Callers |-> "none"]
    /\ ret = [c \in Callers |-> Undefined]
    /\ synonymConfigs = LoadSynonymConfigs(synFile)
    /\ lastResponse = "none"
    /\ textFiles = <<>>
    /\ existingStore = NoStore
    /\ storeName = NoStore
    /\ docIdx = 0
    /\ textFilesUploaded = 0
    /\ batchNo = 0
    /\ nBatches = 0
    /\ results = {}
    /\ attempt = 0
    /\ images = <<>>
    /\ imgIdx = 0
    /\ hashCache = EmptyMap
    /\ processedInThisRun = {}
    /\ hash = NoHash
    /\ uploadedImages = 0
    /\ uploadResp = "none"
    /\ steps = <<>>
    /\ created = NoStore
    /\ analysed = {}
    /\ skippedHit = {}
    /\ cacheAtStart = EmptyMap
    /\ errLog = {}

\* ----------------------------------------------- syncWikiToGeminiRag
\* POST /gemini/sync calls syncWikiToGeminiRag: the test at line 389.
SyncEnter(c) ==
    /\ running = {}
    /\ pc[c] = "idle"
    /\ storeSeq < MaxStores
    /\ IF syncRunning
       THEN /\ pc' = [pc EXCEPT ![c] = "returned"]
            /\ outcome' = [outcome EXCEPT ![c] = "rejected"]
            /\ ret' = [ret EXCEPT ![c] = Undefined]
            /\ syncRunning' = FlagAfterReject(syncRunning)
            /\ running' = {}
       ELSE /\ pc' = [pc EXCEPT ![c] = "checked"]
            /\ running' = AfterCheck(c)
            /\ UNCHANGED <<syncRunning, outcome, ret>>
    /\ UNCHANGED <<synonymConfigs, lastResponse>>
    /\ UNCHANGED <<persist, syncLocals, genLocals, imgLocals, history>>
    /\ Frame("sync")

\* Lines 394-419: set the flag, validate, clear the hash cache, and start
\* SetUpFileSearchStore, which suspends at the listing of the stores.
SyncStart(c) ==
    /\ running \subseteq {c}
    /\ pc[c] = "checked"
    /\ cacheAtStart' = loadHashCache(hashFile)
    /\ created' = NoStore
    /\ analysed' = {}
    /\ skippedHit' = {}
    /\ errLog' = {}
    /\ IF ValidationFails(dirExists, dirFiles)
       THEN /\ Return(c, "failed", Undefined)
            /\ steps' = <<"validate">>
            /\ UNCHANGED persist
       ELSE /\ syncRunning' = TRUE
            /\ textFiles' = ReadTextFiles(dirFiles)
            /\ hashFile' = clearImageHashCache(hashFile)
            /\ steps' = <<"validate", "clear", "delete">>
            /\ pc' = [pc EXCEPT ![c] = "listing"]
            /\ running' = {}
            /\ UNCHANGED <<outcome, ret, synonymConfigs, lastResponse>>
            /\ UNCHANGED <<dirExists, dirFiles, imgBytes, synFile, stores, storeSeq>>
            /\ UNCHANGED <<existingStore, storeName, docIdx, textFilesUploaded>>
            /\ UNCHANGED <<genLocals, imgLocals>>
    /\ Frame("sync")

\* findRagStoreByDisplayName returns (lines 366-380): delete the store found,
\* or create the new one at once.
ListReturn(c) ==
    /\ running = {}
    /\ pc[c] = "listing"
    /\ \/ Fail(c)
       \/ /\ DOMAIN stores = {}
          /\ Suspend(c, "creating")
          /\ steps' = Did(steps, "create")
          /\ UNCHANGED <<persist, syncLocals, genLocals, imgLocals>>
          /\ UNCHANGED <<created, analysed, skippedHit, cacheAtStart, errLog>>
       \/ \E s \in DOMAIN stores :
            /\ Suspend(c, "deleting")
            /\ existingStore' = s
            /\ UNCHANGED <<persist, textFiles, storeName, docIdx, textFilesUploaded>>
            /\ UNCHANGED <<genLocals, imgLocals, history>>
    /\ Frame("sync")

\* ai.fileSearchStores.delete returns (lines 370-378).
DeleteReturn(c) ==
    /\ running = {}
    /\ pc[c] = "deleting"
    /\ \/ Fail(c)
       \/ /\ stores' = [s \in DOMAIN stores \ {existingStore} |-> stores[s]]
          /\ Suspend(c, "creating")
          /\ steps' = Did(steps, "create")
          /\ UNCHANGED <<dirExists, dirFiles, imgBytes, hashFile, synFile, storeSeq>>
          /\ UNCHANGED <<syncLocals, genLocals, imgLocals>>
          /\ UNCHANGED <<created, analysed, skippedHit, cacheAtStart, errLog>>
    /\ Frame("sync")

\* ----------------------------------------------------- generateSynonyms
\* Lines 225-228: generateSynonyms starts by removing the old synonyms.json.
RemoveOldSynonymsSkipped(file) == file

RemoveOldSynonyms(file) == [exists |-> FALSE, entries |-> {}]

\* The end of generateSynonyms (lines 300-339) and, back in the sync run, the
\* first document's upload request (lines 424-447).  The merge and the write
\* either succeed or end in the catch at line 336, which returns null.
GenReturn(c, stp) ==
    /\ steps' = Did(stp, "documents")
    /\ Suspend(c, "doc_upload")
    /\ docIdx' = 1
    /\ batchNo' = 0
    /\ nBatches' = 0
    /\ results' = {}
    /\ attempt' = 0

GenEnd(c, res, stp) ==
    /\ \/ /\ synFile' = [exists |-> TRUE, entries |-> res]
          /\ errLog' = errLog
       \/ /\ synFile' = RemoveOldSynonyms(synFile)
          /\ errLog' = errLog \cup {GenItem}
    /\ GenReturn(c, stp)

\* generateSynonyms fails before it has removed the old file (the unlink of
\* line 226 throws): the catch at line 336 returns null and the run goes on.
GenFailedAtStart(c, stp) ==
    /\ synFile' = synFile
    /\ errLog' = errLog \cup {GenItem}
    /\ GenReturn(c, stp)

\* ai.fileSearchStores.create returns (lines 378-386); then generateSynonyms
\* runs to its first extraction call (lines 223-269), or to its end when no
\* document has content.
CreateReturn(c) ==
    /\ running = {}
    /\ pc[c] = "creating"
    /\ \/ Fail(c)
       \/ LET id == storeSeq + 1
              stp == Did(steps, "synonyms")
          IN /\ stores' = (id :> {}) @@ stores
             /\ storeSeq' = id
             /\ created' = id
             /\ storeName' = StoreNameAfterSetUp(existingStore, id)
             /\ \/ GenEnd(c, {}, stp)
                \/ GenFailedAtStart(c, stp)
                \/ \E n \in 1..MaxBatches :
                     /\ synFile' = RemoveOldSynonyms(synFile)
                     /\ Suspend(c, "extract1")
                     /\ batchNo' = 1
                     /\ nBatches' = n
                     /\ results' = {}
                     /\ attempt' = 1
                     /\ steps' = stp
                     /\ UNCHANGED <<docIdx, errLog>>
             /\ UNCHANGED <<dirExists, dirFiles, imgBytes, hashFile>>
             /\ UNCHANGED <<textFiles, existingStore, textFilesUploaded, imgLocals>>
             /\ UNCHANGED <<analysed, skippedHit, cacheAtStart>>
    /\ Frame("sync")

\* After a batch (lines 270-281, 292-298): the cooldown timer between two
\* batches, or the merge after the final one.
AfterBatch(c, res) ==
    IF batchNo < nBatches
    THEN /\ Suspend(c, "cooldown")
         /\ results' = res
         /\ attempt' = 0
         /\ UNCHANGED <<synFile, docIdx, batchNo, nBatches, steps, errLog>>
    ELSE GenEnd(c, res, steps)

\* extractBatch retries a failed request once (lines 195-199).
RetryAlways(n) == TRUE

RetryAllowed(n) == n < 2

\* A request of extractBatch has failed (lines 192-203): an error, the
\* timeout winning the race, or output that is no JSON.  The batch is
\* requested again, or given up with [] as its result.
ExtractFailed(c) ==
    IF RetryAllowed(attempt)
    THEN /\ Suspend(c, "extract2")
         /\ attempt' = attempt + 1
         /\ UNCHANGED <<synFile, docIdx, batchNo, nBatches, results, steps, errLog>>
    ELSE AfterBatch(c, results)

\* The first attempt of extractBatch returns (lines 178-199): a result, or a
\* failure, which starts the one retry.
ExtractReturn1(c) ==
    /\ running = {}
    /\ pc[c] = "extract1"
    /\ \/ \E out \in SUBSET Terms : AfterBatch(c, results \cup out)
       \/ ExtractFailed(c)
    /\ UNCHANGED <<dirExists, dirFiles, imgBytes, hashFile, stores, storeSeq>>
    /\ UNCHANGED <<textFiles, existingStore, storeName, textFilesUploaded, imgLocals>>
    /\ UNCHANGED <<created, analysed, skippedHit, cacheAtStart>>
    /\ Frame("sync")

\* The second attempt returns (lines 192-203): a result, or [] on failure.
ExtractReturn2(c) ==
    /\ running = {}
    /\ pc[c] = "extract2"
    /\ \/ \E out \in SUBSET Terms : AfterBatch(c, results \cup out)
       \/ ExtractFailed(c)
    /\ UNCHANGED <<dirExists, dirFiles, imgBytes, hashFile, stores, storeSeq>>
    /\ UNCHANGED <<textFiles, existingStore, storeName, textFilesUploaded, imgLocals>>
    /\ UNCHANGED <<created, analysed, skippedHit, cacheAtStart>>
    /\ Frame("sync")

\* The cooldown timer fires (line 280): the next batch's extraction call.
CooldownDone(c) ==
    /\ running = {}
    /\ pc[c] = "cooldown"
    /\ Suspend(c, "extract1")
    /\ batchNo' = batchNo + 1
    /\ attempt' = 1
    /\ UNCHANGED <<persist, syncLocals, nBatches, results, imgLocals, history>>
    /\ Frame("sync")

\* --------------------------------------------------- processImagesToRag
HasRecord(cache, img) == img \in DOMAIN cache

\* Lines 322-323: the digest of the bytes of the image's own file.
HashOfFirstFile(img, bytesOf) == getImageHash(bytesOf[1])

HashOf(img, bytesOf) == getImageHash(bytesOf[img])

RECURSIVE ScanImagesNoRunSet(_, _, _, _, _)
ScanImagesNoRunSet(imgs, i, cache, processed, hits) ==
    IF i > Len(imgs)
    THEN [idx |-> i, processed |-> processed, hits |-> hits]
    ELSE IF HasRecord(cache, imgs[i]) /\ cache[imgs[i]] = HashOf(imgs[i], imgBytes)
    THEN ScanImagesNoRunSet(imgs, i + 1, cache, processed \cup {imgs[i]},
                            hits \cup {imgs[i]})
    ELSE [idx |-> i, processed |-> processed \cup {imgs[i]}, hits |-> hits]

\* The head of the loop, lines 314-328, from index i on: the runtime
\* duplicates and the hash matches are skipped, up to the first image that
\* has to be analysed (idx > Len(imgs): none is left).
RECURSIVE ScanImages(_, _, _, _, _)
ScanImages(imgs, i, cache, processed, hits) ==
    IF i > Len(imgs)
    THEN [idx |-> i, processed |-> processed, hits |-> hits]
    ELSE IF imgs[i] \in processed
    THEN ScanImages(imgs, i + 1, cache, processed, hits)
    ELSE IF HasRecord(cache, imgs[i]) /\ cache[imgs[i]] = HashOf(imgs[i], imgBytes)
    THEN ScanImages(imgs, i + 1, cache, processed \cup {imgs[i]}, hits \cup {imgs[i]})
    ELSE [idx |-> i, processed |-> processed \cup {imgs[i]}, hits |-> hits]

\* The loop of processImagesToRag from index i on (lines 314-359): the
\* analysis request of the next image to process, or the end of the pass and
\* of the sync run (lines 453-463).
ImgLoop(c, imgs, i, cache, processed, uploaded, tfu) ==
    LET s == ScanImages(imgs, i, cache, processed, {})
    IN /\ skippedHit' = skippedHit \cup s.hits
       /\ IF s.idx > Len(imgs)
          THEN /\ Return(c, "ok", SyncResult(tfu, uploaded, storeName))
               /\ steps' = Did(Did(steps, "images"), "done")
               /\ analysed' = analysed
          ELSE /\ Suspend(c, "img_analyze")
               /\ steps' = Did(steps, "images")
               /\ analysed' = analysed \cup {imgs[s.idx]}
               /\ images' = imgs
               /\ imgIdx' = s.idx
               /\ hashCache' = cache
               /\ processedInThisRun' = s.processed
               /\ hash' = HashOf(imgs[s.idx], imgBytes)
               /\ uploadedImages' = uploaded
               /\ uploadResp' = "none"
               /\ textFilesUploaded' = tfu
               /\ UNCHANGED <<textFiles, existingStore, storeName, docIdx, genLocals>>

\* After a failed upload of an image the catch at line 354 is inside the
\* loop: the pass goes on with the next image.
NextIndexAbortPass(imgs, i, resp) == IF resp = "ok" THEN i + 1 ELSE Len(imgs) + 1

NextIndex(imgs, i, resp) == i + 1

\* The in-memory cache after the upload request of an image has ended
\* (lines 343-356): the digest is recorded only past a successful await.
CacheAfterUploadAlways(cache, img, h, resp) == (img :> h) @@ cache

CacheAfterUpload(cache, img, h, resp) ==
    IF resp = "ok" THEN (img :> h) @@ cache ELSE cache

\* ------------------------------------------------- the document uploads
\* uploadToFileSearchStore returns for a document (lines 447-453): the next
\* document's upload, or processImagesToRag once the last one is uploaded.
\* On failure uploadTextToRag logs and rethrows (lines 284-302); the loop of
\* lines 425-449 has no catch, so the error ends the run at line 465.
DocUploadReturn(c) ==
    /\ running = {}
    /\ pc[c] = "doc_upload"
    /\ \/ /\ Return(c, "failed", Undefined)
          /\ errLog' = errLog \cup {DocItem(textFiles[docIdx])}
          /\ UNCHANGED <<persist, steps, created, analysed, skippedHit, cacheAtStart>>
       \/ /\ stores' = [stores EXCEPT ![storeName] = @ \cup {DocItem(textFiles[docIdx])}]
          /\ IF docIdx < Len(textFiles)
             THEN /\ Suspend(c, "doc_upload")
                  /\ docIdx' = docIdx + 1
                  /\ textFilesUploaded' = textFilesUploaded + 1
                  /\ UNCHANGED <<textFiles, existingStore, storeName, genLocals, imgLocals>>
                  /\ UNCHANGED <<steps, analysed, skippedHit>>
             ELSE ImgLoop(c, ReadImages, 1, loadHashCache(hashFile), {}, 0,
                          textFilesUploaded + 1)
          /\ UNCHANGED <<dirExists, dirFiles, imgBytes, hashFile, synFile, storeSeq>>
          /\ UNCHANGED <<created, cacheAtStart, errLog>>
    /\ Frame("sync")

\* analyzeImageWithGemini returns (lines 193-244, 333-348): it catches the
\* failure of the analysis call and returns an error description, so the
\* upload of the description is requested either way.
AnalyzeReturn(c) ==
    /\ running = {}
    /\ pc[c] = "img_analyze"
    /\ Suspend(c, "img_upload")
    /\ UNCHANGED <<persist, syncLocals, genLocals, imgLocals, history>>
    /\ Frame("sync")

\* The service handles the upload of an image's description (the request of
\* lines 266-274): it stores the item and answers, or it fails; the answer
\* of a stored item may also be lost, and the request then rejects.
ImgUploadRemote(c) ==
    /\ pc[c] = "img_upload"
    /\ uploadResp = "none"
    /\ \/ /\ stores' = [stores EXCEPT ![storeName] = @ \cup {ImageItem(images[imgIdx], hash)}]
          /\ uploadResp' \in {"ok", "fail"}
       \/ /\ uploadResp' = "fail"
          /\ UNCHANGED stores
    /\ UNCHANGED <<dirExists, dirFiles, imgBytes, hashFile, synFile, storeSeq>>
    /\ UNCHANGED <<ctl, syncLocals, genLocals, history>>
    /\ UNCHANGED <<images, imgIdx, hashCache, processedInThisRun, hash, uploadedImages>>
    /\ Frame("sync")

\* The await of uploadTextToRag at line 343 resumes: lines 350-352 on
\* success, the catch at line 354 on failure; then the rest of the loop.
ImgUploadResume(c) ==
    /\ running = {}
    /\ pc[c] = "img_upload"
    /\ uploadResp # "none"
    /\ LET img == images[imgIdx]
           cache == CacheAfterUpload(hashCache, img, hash, uploadResp)
           next == NextIndex(images, imgIdx, uploadResp)
       IN IF uploadResp = "ok"
          THEN /\ hashFile' = saveHashCache(cache)
               /\ errLog' = errLog
               /\ ImgLoop(c, images, next, cache, processedInThisRun,
                          uploadedImages + 1, textFilesUploaded)
          ELSE /\ hashFile' = hashFile
               /\ errLog' = errLog \cup {ImageItem(img, hash)}
               /\ ImgLoop(c, images, next, cache, processedInThisRun,
                          uploadedImages, textFilesUploaded)
    /\ UNCHANGED <<dirExists, dirFiles, imgBytes, synFile, stores, storeSeq>>
    /\ UNCHANGED <<created, cacheAtStart>>
    /\ Frame("sync")

\* ------------------------------------------------------ the environment
\* The handler of POST /gemini/sync sends the response (res.json(result)).
Respond(c) ==
    /\ running = {}
    /\ pc[c] = "returned"
    /\ pc' = [pc EXCEPT ![c] = "idle"]
    /\ outcome' = [outcome EXCEPT ![c] = "none"]
    /\ ret' = [ret EXCEPT ![c] = Undefined]
    /\ lastResponse' = RouteResponse(outcome[c])
    /\ IF outcome[c] # "rejected" /\ \A d \in Callers : ~InRun(pc[d])
       THEN ResetHistory
       ELSE UNCHANGED history
    /\ UNCHANGED <<persist, syncRunning, running, synonymConfigs>>
    /\ UNCHANGED <<syncLocals, genLocals, imgLocals>>
    /\ Frame("sync")

\* The process dies and is started again: the files and the remote stores
\* stay, everything in memory is lost.
Crash ==
    /\ \E c \in Callers : pc[c] # "idle"
    /\ syncRunning' = FALSE
    /\ running' = {}
    /\ pc' = [c \in Callers |-> "idle"]
    /\ outcome' = [c \in Callers |-> "none"]
    /\ ret' = [c \in Callers |-> Undefined]
    /\ synonymConfigs' = LoadSynonymConfigs(synFile)
    /\ lastResponse' = "none"
    /\ ResetLocals
    /\ ResetHistory
    /\ UNCHANGED persist
    /\ Frame("sync")

\* Between runs the export directory is removed, emptied or filled.
EnvSetDir ==
    /\ Idle
    /\ \E e \in BOOLEAN, F \in SUBSET AllFiles :
         /\ ~e => F = {}
         /\ <<e, F>> # <<dirExists, dirFiles>>
         /\ dirExists' = e
         /\ dirFiles' = F
    /\ UNCHANGED <<imgBytes, hashFile, synFile, stores, storeSeq>>
    /\ UNCHANGED <<ctl, syncLocals, genLocals, imgLocals, history>>
    /\ Frame("sync")

\* Between runs an image file gets other bytes.
EnvSetImage ==
    /\ Idle
    /\ \E i \in Images, b \in Bytes :
         /\ imgBytes[i] # b
         /\ imgBytes' = [imgBytes EXCEPT ![i] = b]
    /\ UNCHANGED <<dirExists, dirFiles, hashFile, synFile, stores, storeSeq>>
    /\ UNCHANGED <<ctl, syncLocals, genLocals, imgLocals, history>>
    /\ Frame("sync")

Next ==
    \/ \E c \in Callers :
         \/ SyncEnter(c)
         \/ SyncStart(c)
         \/ ListReturn(c)
         \/ DeleteReturn(c)
         \/ CreateReturn(c)
         \/ ExtractReturn1(c)
         \/ ExtractReturn2(c)
         \/ CooldownDone(c)
         \/ DocUploadReturn(c)
         \/ AnalyzeReturn(c)
         \/ ImgUploadRemote(c)
         \/ ImgUploadResume(c)
         \/ Respond(c)
    \/ Crash
    \/ EnvSetDir
    \/ EnvSetImage

\* The sync part at rest: no export directory, no run.
SyncQuiet ==
    /\ SyncInit
    /\ ~dirExists
    /\ \A i \in Images : imgBytes[i] = 1

\* Every part but g is at rest.
IdleExcept(g) ==
    /\ IF g = "sync" THEN TRUE ELSE SyncQuiet
    /\ IF g = "batch" THEN TRUE ELSE BatchIdle
    /\ IF g = "merge" THEN TRUE ELSE MergeIdle
    /\ IF g = "query" THEN TRUE ELSE QueryIdle
    /\ IF g = "chunk" THEN TRUE ELSE ChunkIdle
    /\ IF g = "meta" THEN TRUE ELSE MetaIdle
    /\ IF g = "split" THEN TRUE ELSE SplitIdle
    /\ IF g = "calls" THEN TRUE ELSE CallsIdle
    /\ IF g = "rate" THEN TRUE ELSE RateIdle
    /\ IF g = "send" THEN TRUE ELSE SendIdle
    /\ IF g = "pass" THEN TRUE ELSE PassIdle
    /\ IF g = "index" THEN TRUE ELSE IndexIdle

Init == SyncInit /\ IdleExcept("sync")

Spec == Init /\ [][Next]_vars

\* ---------------------------------------- generateSynonyms: the batches
\* token usage budget of one extraction request (line 107)
MAX_CHARS_PER_BATCH == 20000

\* The lengths of the cleaned text of a document: only documents of more
\* than 20 characters are kept (line 244).
DocLengths == {21, 9000, 11000, 20000, 20001, 45000, 50000}

\* A document, or a part of one: its text is the len characters of the
\* document's text from offset from on.
WikiDoc(n, l) == [name |-> n, index |-> 0, from |-> 0, len |-> l]

\* splitDocIntoChunks (lines 206-221): the chunks <name>#<index> of at most
\* MAX_CHARS_PER_BATCH characters, from position start on.
RECURSIVE SplitFromSkipping(_, _, _)
SplitFromSkipping(doc, start, index) ==
    IF start >= doc.len THEN <<>>
    ELSE LET l == IF doc.len - start < MAX_CHARS_PER_BATCH
                  THEN doc.len - start ELSE MAX_CHARS_PER_BATCH
         IN <<[name |-> doc.name, index |-> index, from |-> start, len |-> l]>>
            \o SplitFromSkipping(doc, start + MAX_CHARS_PER_BATCH + 1, index + 1)

RECURSIVE SplitFrom(_, _, _)
SplitFrom(doc, start, index) ==
    IF start >= doc.len THEN <<>>
    ELSE LET l == IF doc.len - start < MAX_CHARS_PER_BATCH
                  THEN doc.len - start ELSE MAX_CHARS_PER_BATCH
         IN <<[name |-> doc.name, index |-> index, from |-> start, len |-> l]>>
            \o SplitFrom(doc, start + MAX_CHARS_PER_BATCH, index + 1)

splitDocIntoChunks(doc) == SplitFrom(doc, 0, 1)

\* Lines 261-264.
docsToInsert(doc) ==
    IF doc.len > MAX_CHARS_PER_BATCH THEN splitDocIntoChunks(doc) ELSE <<doc>>

\* The units in the order the two nested loops (lines 260-266) visit them.
RECURSIVE UnitsOf(_)
UnitsOf(docs) ==
    IF docs = <<>> THEN <<>> ELSE docsToInsert(Head(docs)) \o UnitsOf(Tail(docs))

\* The test of line 267.
FlushNeededBatchSizeOnly(size, len) == size > MAX_CHARS_PER_BATCH

FlushNeeded(size, len) == size + len > MAX_CHARS_PER_BATCH

RECURSIVE BatchLoopNoFinalBatch(_, _, _, _, _)
BatchLoopNoFinalBatch(units, i, batch, size, out) ==
    IF i > Len(units)
    THEN out
    ELSE IF FlushNeeded(size, units[i].len)
    THEN BatchLoopNoFinalBatch(units, i + 1, <<units[i]>>, units[i].len,
                               Append(out, batch))
    ELSE BatchLoopNoFinalBatch(units, i + 1, Append(batch, units[i]),
                               size + units[i].len, out)

\* Lines 266-298 from unit i on: the batches submitted to extractBatch.
RECURSIVE BatchLoop(_, _, _, _, _)
BatchLoop(units, i, batch, size, out) ==
    IF i > Len(units)
    THEN IF Len(batch) > 0 THEN Append(out, batch) ELSE out
    ELSE IF FlushNeeded(size, units[i].len)
    THEN BatchLoop(units, i + 1, <<units[i]>>, units[i].len, Append(out, batch))
    ELSE BatchLoop(units, i + 1, Append(batch, units[i]), size + units[i].len, out)

\* The documents have been read (lines 231-253).
BatchInit ==
    /\ batchPc = "ready"
    /\ \E k \in 1..MaxWikiDocs :
         \E ls \in [1..k -> DocLengths] :
            wikiDocs = [n \in 1..k |-> WikiDoc(n, ls[n])]
    /\ submitted = <<>>

\* Lines 255-298: the documents are cut into batches, each submitted.
SubmitBatches ==
    /\ Frame("batch")
    /\ batchPc = "ready"
    /\ batchPc' = "done"
    /\ submitted' = BatchLoop(UnitsOf(wikiDocs), 1, <<>>, 0, <<>>)
    /\ UNCHANGED wikiDocs

BatchSpecInit == BatchInit /\ IdleExcept("batch")

BatchSpec == BatchSpecInit /\ [][SubmitBatches]_vars

\* ------------------------------------------ generateSynonyms: the merge
\* A string is the sequence of its characters.
Strs == {<<>>, <<"a">>, <<"A", " ">>, <<" ", "b">>, <<"B">>}

LowerChar(ch) ==
    CASE ch = "A" -> "a" [] ch = "B" -> "b" [] ch = "D" -> "d"
      [] ch = "I" -> "i" [] ch = "N" -> "n" [] ch = "P" -> "p"
      [] ch = "S" -> "s" [] ch = "V" -> "v" [] OTHER -> ch

toLowerCase(str) == [i \in 1..Len(str) |-> LowerChar(str[i])]

RECURSIVE TrimStart(_)
TrimStart(str) ==
    IF str # <<>> /\ Head(str) = " " THEN TrimStart(Tail(str)) ELSE str

RECURSIVE TrimEnd(_)
TrimEnd(str) ==
    IF str # <<>> /\ str[Len(str)] = " "
    THEN TrimEnd(SubSeq(str, 1, Len(str) - 1)) ELSE str

trim(str) == TrimEnd(TrimStart(str))

\* An entry a batch has returned.  An entry that is null or has no term is
\* an entry with the empty term; synonyms that are no array are no synonyms.
SynonymEntry(t, syns) == [term |-> t, synonyms |-> syns]

SeqsUpTo(S, n) == UNION {[1..k -> S] : k \in 0..n}

RawEntries == {SynonymEntry(t, syns) : t \in Strs, syns \in SeqsUpTo(Strs, MaxSyns)}

\* The filter of line 315.
KeepSynonymNonEmpty(syn, term) == Len(syn) > 0

KeepSynonym(syn, term) == Len(syn) > 0 /\ syn # term

\* Set.add (line 316): a Set keeps its elements once, in insertion order.
SetAddAppends(syns, syn) == Append(syns, syn)

SetAdd(syns, syn) ==
    IF \E i \in DOMAIN syns : syns[i] = syn THEN syns ELSE Append(syns, syn)

RECURSIVE AddAll(_, _)
AddAll(syns, new) ==
    IF new = <<>> THEN syns ELSE AddAll(SetAdd(syns, Head(new)), Tail(new))

\* Lines 313-315: the synonyms of the entry, trimmed, lowercased, filtered.
CleanSynonyms(entry, term) ==
    LET cleaned == [i \in 1..Len(entry.synonyms) |-> toLowerCase(trim(entry.synonyms[i]))]
        Keep(syn) == KeepSynonym(syn, term)
    IN SelectSeq(cleaned, Keep)

\* The body of the loop, lines 305-317; map is the Map in insertion order.
MergeEntry(map, entry) ==
    IF entry.term = <<>> THEN map
    ELSE LET term == toLowerCase(trim(entry.term))
         IN IF term = <<>> THEN map
            ELSE LET m1 == IF \E i \in DOMAIN map : map[i].term = term
                           THEN map
                           ELSE Append(map, SynonymEntry(term, <<>>))
                     new == CleanSynonyms(entry, term)
                 IN [i \in DOMAIN m1 |->
                        IF m1[i].term = term
                        THEN SynonymEntry(term, AddAll(m1[i].synonyms, new))
                        ELSE m1[i]]

RECURSIVE MergeLoop(_, _)
MergeLoop(entries, map) ==
    IF entries = <<>> THEN map
    ELSE MergeLoop(Tail(entries), MergeEntry(map, Head(entries)))

HasSynonyms(entry) == Len(entry.synonyms) > 0

\* Lines 302-325: the merge of the batch results into finalOutput.
MergeSynonyms(entries) == SelectSeq(MergeLoop(entries, <<>>), HasSynonyms)

\* The batches have returned their entries (lines 255-298).
MergeInit ==
    /\ mergePc = "ready"
    /\ \E k \in 1..MaxRaw : rawResults \in [1..k -> RawEntries]
    /\ finalOutput = <<>>

\* Lines 300-327: the merge, and the write of the index.
MergeResults ==
    /\ Frame("merge")
    /\ mergePc = "ready"
    /\ mergePc' = "done"
    /\ finalOutput' = MergeSynonyms(rawResults)
    /\ UNCHANGED rawResults

MergeSpecInit == MergeInit /\ IdleExcept("merge")

MergeSpec == MergeSpecInit /\ [][MergeResults]_vars

\* ------------------------------------------------ searchWiki: a query
MaxIndex == 3

VpnEntry ==
    [term |-> <<"v", "p", "n">>,
     synonyms |-> << <<"v", "i", "r", "t", "u", "a", "l", " ", "p", "r", "i", "v", "a", "t", "e", " ", "n", "e", "t", "w", "o", "r", "k">>,
                     <<"t", "u", "n", "n", "e", "l">> >>]

NetworkEntry ==
    [term |-> <<"n", "e", "t", "w", "o", "r", "k">>,
     synonyms |-> << <<"l", "a", "n">> >>]

DnsEntry ==
    [term |-> <<"d", "n", "s">>,
     synonyms |-> << <<"n", "a", "m", "e", " ", "s", "e", "r", "v", "e", "r">> >>]

IndexEntries == {VpnEntry, NetworkEntry, DnsEntry}

\* The index as the module has loaded it: the entries of synonyms.json in
\* the order of the file, none if there is no file.
Indexes ==
    {ix \in SeqsUpTo(IndexEntries, MaxIndex) :
        \A i, j \in DOMAIN ix : i # j => ix[i].term # ix[j].term}

VpnQuestion ==
    <<"h", "o", "w", " ", "d", "o", " ", "I", " ", "s", "e", "t", " ", "u", "p", " ", "a", " ", "v", "i", "r", "t", "u", "a", "l", " ", "p", "r", "i", "v", "a", "t", "e", " ", "n", "e", "t", "w", "o", "r", "k">>

Questions ==
    {VpnQuestion,
     <<"V", "P", "N", " ", "d", "o", "w", "n">>,
     <<"D", "N", "S", " ", "a", "n", "d", " ", "L", "A", "N">>,
     <<"h", "i">>,
     <<>>}

\* String.prototype.includes
includes(str, sub) ==
    \E i \in 0..(Len(str) - Len(sub)) : SubSeq(str, i + 1, i + Len(sub)) = sub

\* Array.prototype.some over the synonyms of an entry
some(synonyms, lowerQ) ==
    \E i \in DOMAIN synonyms : includes(lowerQ, toLowerCase(synonyms[i]))

EntryHitsTermOnly(termHit, synonymHit) == termHit

EntryHits(termHit, synonymHit) == termHit \/ synonymHit

RECURSIVE FindLoop(_, _, _)
FindLoop(entries, lowerQ, matches) ==
    IF entries = <<>> THEN matches
    ELSE LET entry == Head(entries)
             term == toLowerCase(entry.term)
             termHit == includes(lowerQ, term)
             synonymHit == some(entry.synonyms, lowerQ)
         IN  FindLoop(Tail(entries), lowerQ,
                      IF EntryHits(termHit, synonymHit)
                      THEN Append(matches, entry) ELSE matches)

findRelevantSynonyms(q) == FindLoop(synonymEntries, toLowerCase(q), <<>>)

\* Array.prototype.join
RECURSIVE join(_, _)
join(strs, sep) ==
    IF strs = <<>> THEN <<>>
    ELSE IF Len(strs) = 1 THEN strs[1]
    ELSE strs[1] \o sep \o join(Tail(strs), sep)

NoneFound ==
    <<"N", "o", "n", "e", " ", "f", "o", "u", "n", "d", " ", "f", "o", "r", " ", "t", "h", "i", "s", " ", "q", "u", "e", "s", "t", "i", "o", "n", ".">>

ContextLine(e) ==
    <<"-", " ">> \o e.term \o <<":", " ">> \o join(e.synonyms, <<",", " ">>)

buildSynonymContext(entries) ==
    IF Len(entries) = 0 THEN NoneFound
    ELSE join([i \in DOMAIN entries |-> ContextLine(entries[i])], <<"\n">>)

\* What the generation service may answer: text, blank text, or nothing.
Texts == {<<"o", "k">>, <<" ", "o", "k", " ">>, <<" ">>, <<>>}

NoAnswerFound ==
    <<"N", "o", " ", "a", "n", "s", "w", "e", "r", " ", "f", "o", "u", "n", "d", ".">>

Answer(text) == [answer |-> text]

Thrown(what) == [answer |-> "thrown", error |-> what]

QueryInit ==
    /\ qPc = "ready"
    /\ boundary \in {"slack", "route"}
    /\ delivered = NoReply
    /\ question \in Questions
    /\ synonymEntries \in Indexes
    /\ relevant = <<>> /\ synonymContext = <<>>
    /\ rewriteResp = "none" /\ rewriteQuestion = <<>>
    /\ retryCounter = 0 /\ answerCalls = <<>> /\ answer = NoResult
    /\ rewriteCalls = 0 /\ answerResps = <<>>

\* searchWiki up to its first await: the list of the stores is requested.
SearchWiki ==
    /\ Frame("query")
    /\ qPc = "ready"
    /\ qPc' = "find_store"
    /\ UNCHANGED <<question, synonymEntries, relevant, synonymContext,
                   rewriteResp, rewriteQuestion, retryCounter, answerCalls,
                   answer, rewriteCalls, answerResps, boundary, delivered>>

\* The synchronous part of rewriteUserQuestionForFileSearch: the matching
\* entries, their context block, and the call of the rewrite model.
RewriteStart ==
    /\ relevant' = findRelevantSynonyms(question)
    /\ synonymContext' = buildSynonymContext(relevant')
    /\ rewriteCalls' = rewriteCalls + 1
    /\ qPc' = "rewrite"
    /\ UNCHANGED <<rewriteResp, rewriteQuestion, retryCounter, answerCalls,
                   answer, answerResps>>

SearchFails(what) ==
    /\ qPc' = "thrown"
    /\ answer' = Thrown(what)

\* findRagStoreByDisplayName has answered (or failed).
FindStoreReturn ==
    /\ Frame("query")
    /\ qPc = "find_store"
    /\ \/ RewriteStart
       \/ /\ SearchFails("store")
          /\ UNCHANGED <<relevant, synonymContext, rewriteResp,
                         rewriteQuestion, retryCounter, answerCalls,
                         rewriteCalls, answerResps>>
    /\ UNCHANGED <<question, synonymEntries, boundary, delivered>>

\* One pass of the loop head: the answer generation is called with the
\* rewritten question.
AskAnswer(text, counter) ==
    /\ retryCounter' = counter
    /\ answerCalls' = Append(answerCalls, text)
    /\ qPc' = "answer"
    /\ answer' = answer

RewriteFailureFallsBack(q) ==
    /\ rewriteQuestion' = q
    /\ AskAnswer(q, 1)

\* Neither rewriteUserQuestionForFileSearch nor searchWiki catches.
RewriteFailure(q) ==
    /\ SearchFails("rewrite")
    /\ UNCHANGED <<rewriteQuestion, retryCounter, answerCalls>>

\* rewriteModel.generateContent has answered (or failed).
RewriteReturn ==
    /\ Frame("query")
    /\ qPc = "rewrite"
    /\ \/ /\ rewriteResp' = "ok"
          /\ \E text \in Texts :
                /\ rewriteQuestion' = trim(text)
                /\ AskAnswer(trim(text), 1)
       \/ /\ rewriteResp' = "fail"
          /\ RewriteFailure(question)
    /\ UNCHANGED <<question, synonymEntries, relevant, synonymContext,
                   rewriteCalls, answerResps, boundary, delivered>>

HasText(text) == Len(trim(text)) > 0

LoopAgainAlways(counter) == TRUE

\* while (retryCounter >= 0)
LoopAgain(counter) == counter >= 0

\* ai.models.generateContent has answered (or failed).
AnswerReturn ==
    /\ Frame("query")
    /\ qPc = "answer"
    /\ \/ \E answerText \in Texts :
            /\ answerResps' = Append(answerResps, answerText)
            /\ IF HasText(answerText)
               THEN /\ retryCounter' = -1
                    /\ answer' = Answer(answerText)
                    /\ qPc' = "returned"
                    /\ UNCHANGED answerCalls
               ELSE IF LoopAgain(retryCounter - 1)
                    THEN AskAnswer(rewriteQuestion, retryCounter - 1)
                    ELSE /\ retryCounter' = retryCounter - 1
                         /\ answer' = Answer(NoAnswerFound)
                         /\ qPc' = "returned"
                         /\ UNCHANGED answerCalls
       \/ /\ SearchFails("answer")
          /\ UNCHANGED <<retryCounter, answerCalls, answerResps>>
    /\ UNCHANGED <<question, synonymEntries, relevant, synonymContext,
                   rewriteResp, rewriteQuestion, rewriteCalls, boundary,
                   delivered>>

BotFailed ==
    <<"B", "o", "t", " ", "f", "a", "i", "l", "e", "d", " ", "t", "o", " ", "a", "n", "s", "w", "e", "r", " ", "t", "h", "e", " ", "q", "u", "e", "s", "t", "i", "o", "n", ".">>

\* parseGeminiResponse: the trimmed answer, or the sentinel when it is
\* blank (the texts here hold no markdown for the formatter to rewrite).
parseGeminiResponse(raw) ==
    IF trim(raw.answer) = <<>> THEN NoAnswerFound ELSE trim(raw.answer)

\* POST /gemini/query: res.json(result), or status 500 with the message of
\* the error (parseGeminiResponse.ts 209-221).
RouteReply(out) ==
    IF out.answer = "thrown"
    THEN [status |-> "500", text |-> <<out.error>>]
    ELSE [status |-> "200", text |-> out.answer]

\* handleSlackQuestion: the parsed answer in the channel, or the failure
\* notice to the user alone (slackController.ts 69-91).
SlackReply(out) ==
    IF out.answer = "thrown"
    THEN [status |-> "ephemeral", text |-> BotFailed]
    ELSE [status |-> "in_channel", text |-> parseGeminiResponse(out)]

\* searchWiki has settled: the boundary answers its caller.
Deliver ==
    /\ Frame("query")
    /\ qPc \in {"returned", "thrown"}
    /\ delivered = NoReply
    /\ delivered' = IF boundary = "route" THEN RouteReply(answer)
                    ELSE SlackReply(answer)
    /\ UNCHANGED <<qPc, question, synonymEntries, relevant, synonymContext,
                   rewriteResp, rewriteQuestion, retryCounter, answerCalls,
                   answer, rewriteCalls, answerResps, boundary>>

QueryNext ==
    SearchWiki \/ FindStoreReturn \/ RewriteReturn \/ AnswerReturn \/ Deliver

QuerySpecInit == QueryInit /\ IdleExcept("query")

QuerySpec == QuerySpecInit /\ [][QueryNext]_vars

\* ------------------------------------------------------ chunkSynonyms
MaxChunkTerms == 3
MaxMaxLen == 6

ChunkStrs ==
    {<<>>, <<" ">>, <<"a">>, <<"b", "c">>,
     <<" ", "d", "e", "f", " ">>, <<"g", " ", "h", "i", "j">>,
     <<"k", ",", " ", "l">>}

\* String.prototype.slice(0, n)
sliceWhole(str, n) == str

slice(str, n) == SubSeq(str, 1, IF n < Len(str) THEN n ELSE Len(str))

AdditionBare(current, trimmed) == trimmed

\* const addition = (current ? ", " : "") + trimmed
Addition(current, trimmed) ==
    (IF current # <<>> THEN <<",", " ">> ELSE <<>>) \o trimmed

RECURSIVE ChunkLoop(_, _, _, _)
ChunkLoop(syns, max, out, current) ==
    IF syns = <<>>
    THEN IF current # <<>> THEN Append(out, current) ELSE out
    ELSE LET trimmed == trim(Head(syns))
             addition == Addition(current, trimmed)
             flushed == IF current # <<>> THEN Append(out, current) ELSE out
         IN  IF trimmed = <<>>
             THEN ChunkLoop(Tail(syns), max, out, current)
             ELSE IF Len(current) + Len(addition) > max
             THEN IF Len(trimmed) > max
                  THEN ChunkLoop(Tail(syns), max,
                                 Append(flushed, slice(trimmed, max)), <<>>)
                  ELSE ChunkLoop(Tail(syns), max, flushed, trimmed)
             ELSE ChunkLoop(Tail(syns), max, out, current \o addition)

chunkSynonyms(syns, max) == ChunkLoop(syns, max, <<>>, <<>>)

ChunkInit ==
    /\ chunkPc = "ready"
    /\ synonymList \in SeqsUpTo(ChunkStrs, MaxChunkTerms)
    /\ maxLen \in 1..MaxMaxLen
    /\ chunks = <<>>

ChunkSynonyms ==
    /\ Frame("chunk")
    /\ chunkPc = "ready"
    /\ chunkPc' = "done"
    /\ chunks' = chunkSynonyms(synonymList, maxLen)
    /\ UNCHANGED <<synonymList, maxLen>>

ChunkSpecInit == ChunkInit /\ IdleExcept("chunk")

ChunkSpec == ChunkSpecInit /\ [][ChunkSynonyms]_vars

\* ------------------------- syncWikiToGeminiRag: the metadata of a document
DEFAULT_MAX_LEN == 255
MAX_SYNONYM_GROUPS == 15
MaxMetaTerms == 17

Letters ==
    <<"a", "b", "c", "d", "e", "f", "g", "h", "i", "j",
      "k", "l", "m", "n", "o", "p", "q", "r", "s", "t">>

\* A string of n characters, and the k-th of the distinct terms of n
\* characters.
Fill(ch, n) == [i \in 1..n |-> ch]

Term(k, n) == [i \in 1..n |-> IF i = 1 THEN Letters[k] ELSE "x"]

TermLengths == {3, 100, 200, 300}

TitleLengths == {5, 255, 256}

FileNames ==
    {<<"1", ".", "j", "s", "o", "n">>, <<"2", ".", "j", "s", "o", "n">>}

WikiText == <<"w", "i", "k", "i", "-", "t", "e", "x", "t">>

SynonymKeyOfIndex(index) ==
    IF index = 0 THEN "synonyms" ELSE "synonyms_" \o ToString(index)

\* Line 441.
SynonymKey(index) ==
    IF index = 0 THEN "synonyms" ELSE "synonyms_" \o ToString(index + 1)

\* Lines 430-445: the three fixed fields, then one field per kept chunk.
DocMetadata(title, file, synonyms) ==
    LET fixed == << [key |-> "type", stringValue |-> WikiText],
                    [key |-> "wiki_title", stringValue |-> title],
                    [key |-> "wiki_file", stringValue |-> file] >>
        synonymChunks == slice(chunkSynonyms(synonyms, DEFAULT_MAX_LEN),
                               MAX_SYNONYM_GROUPS)
    IN  IF Len(synonyms) > 0
        THEN fixed \o [i \in DOMAIN synonymChunks |->
                          [key |-> SynonymKey(i - 1),
                           stringValue |-> synonymChunks[i]]]
        ELSE fixed

MetaInit ==
    /\ metaPc = "ready"
    /\ metaTitle \in {Fill("t", n) : n \in TitleLengths}
    /\ metaFile \in FileNames
    /\ metaSynonyms \in {[k \in 1..n |-> Term(k, len)] :
                            n \in 0..MaxMetaTerms, len \in TermLengths}
    /\ metadata = <<>>

BuildMetadata ==
    /\ Frame("meta")
    /\ metaPc = "ready"
    /\ metaPc' = "done"
    /\ metadata' = DocMetadata(metaTitle, metaFile, metaSynonyms)
    /\ UNCHANGED <<metaTitle, metaFile, metaSynonyms>>

MetaSpecInit == MetaInit /\ IdleExcept("meta")

MetaSpec == MetaSpecInit /\ [][BuildMetadata]_vars

\* ------------------------------------------------ splitIntoSlackChunks
SLACK_MAX_MESSAGE_SIZE == 2800
MinPeriodOffset == 2000
MaxPieces == 4
MaxParts == 4

\* Texts are put together from runs of letters, periods and blanks.
Pieces ==
    {Fill("x", 1), Fill("x", 800), Fill("x", 2000), <<".">>, <<" ">>}

SlackTexts == {join(ps, <<>>) : ps \in SeqsUpTo(Pieces, MaxPieces)}

MaxSizes == {1, 2, SLACK_MAX_MESSAGE_SIZE}

sliceFromLastTaken(str, n) == SubSeq(str, n, Len(str))

\* String.prototype.slice(n)
sliceFrom(str, n) == SubSeq(str, n + 1, Len(str))

\* String.prototype.lastIndexOf("."), counted from 0
lastIndexOfPeriod(str) ==
    LET ps == {i \in 1..Len(str) : str[i] = "."}
    IN  IF ps = {} THEN -1
        ELSE (CHOOSE i \in ps : \A j \in ps : j <= i) - 1

BreaksAtAnyPeriod(lastPeriod) == lastPeriod # -1

\* if (lastPeriod !== -1 && lastPeriod > 2000)
BreaksAtPeriod(lastPeriod) == lastPeriod # -1 /\ lastPeriod > MinPeriodOffset

\* The chunk one pass of the loop cuts off remaining (lines 50-57).
NextSlice(rem, max) ==
    LET whole == slice(rem, max)
        lastPeriod == lastIndexOfPeriod(whole)
    IN  IF BreaksAtPeriod(lastPeriod) THEN slice(whole, lastPeriod + 1)
        ELSE whole

PushRemainingAlways(ps, rem) == Append(ps, rem)

\* if (remaining.length > 0) parts.push(remaining)
PushRemaining(ps, rem) == IF Len(rem) > 0 THEN Append(ps, rem) ELSE ps

SplitInit ==
    /\ splitPc = "loop"
    /\ maxSize \in MaxSizes
    /\ slackText \in {t \in SlackTexts : Len(t) <= MaxParts * maxSize}
    /\ remaining = slackText
    /\ parts = <<>>

\* One pass of while (remaining.length > maxSize).
SplitPass ==
    /\ Frame("split")
    /\ splitPc = "loop"
    /\ Len(remaining) > maxSize
    /\ LET cut == NextSlice(remaining, maxSize)
       IN  /\ parts' = Append(parts, cut)
           /\ remaining' = trim(sliceFrom(remaining, Len(cut)))
    /\ UNCHANGED <<splitPc, slackText, maxSize>>

\* The loop is left: the rest is pushed and parts returned.
SplitReturn ==
    /\ Frame("split")
    /\ splitPc = "loop"
    /\ ~(Len(remaining) > maxSize)
    /\ parts' = PushRemaining(parts, remaining)
    /\ splitPc' = "done"
    /\ UNCHANGED <<slackText, maxSize, remaining>>

SplitNext == SplitPass \/ SplitReturn

SplitSpecInit == SplitInit /\ IdleExcept("split")

SplitSpec == SplitSpecInit /\ [][SplitNext]_vars

\* --------------------------- a sync run: the requests open at the service
ExtractCall(b, n) == [batch |-> b, attempt |-> n]

\* What the run has done so far: kind is "call" (generateContent is
\* requested), "entries" (extractBatch returns the parsed output), "error",
\* "timeout", "unparsable" (the try block throws), "empty" (extractBatch
\* gives up and returns []), "delay" (the cooldown timer is started) or
\* "delayed" (it has fired).
Event(kind, b, n) == [kind |-> kind, batch |-> b, attempt |-> n]

\* The raw output of a request, as a sequence of tokens: code-fence markers,
\* a JSON array of entries, or text that is no JSON.
Fence == "<fence>"
FenceJson == "<fence>json"
EntriesJson == "[entries]"
Prose == "prose"

RawOutputs ==
    { <<EntriesJson>>,
      <<FenceJson, EntriesJson, Fence>>,
      <<Fence, EntriesJson, Fence>>,
      <<Prose>>,
      <<FenceJson, Prose, Fence>> }

\* The request is rejected instead of answered.
Rejected == <<>>

\* JSON.parse(raw) returns (lines 187, 190).
Parses(raw) == raw = <<EntriesJson>>

\* The fallback of line 189: every code-fence marker is removed.
StripFences(raw) == SelectSeq(raw, LAMBDA t : t \notin {Fence, FenceJson})

\* The try block of extractBatch (lines 184-191) returns entries.
ReturnsEntries(raw) ==
    raw # Rejected /\ (Parses(raw) \/ Parses(StripFences(raw)))

CallsInit ==
    /\ callPc = "ready"
    /\ callBatches \in 0..MaxBatches
    /\ callDocs \in 1..MaxDocs
    /\ callBatch = 0 /\ callAttempt = 0 /\ callDoc = 0
    /\ openCalls = {} /\ openUploads = {}
    /\ callLog = <<>>

\* extractBatch(batch, n) up to its await: model.generateContent is raced
\* against the 180 s timer (lines 173-182).
StartExtract(b, n, lg) ==
    /\ callPc' = "extract"
    /\ callBatch' = b
    /\ callAttempt' = n
    /\ openCalls' = openCalls \cup {ExtractCall(b, n)}
    /\ callLog' = Append(lg, Event("call", b, n))
    /\ UNCHANGED <<callDoc, openUploads>>

\* uploadTextToRag up to its await (geminiService.ts 447, 265-273).
StartUpload(d) ==
    /\ callPc' = "upload"
    /\ callDoc' = d
    /\ openUploads' = openUploads \cup {d}
    /\ UNCHANGED <<callBatch, callAttempt>>

\* generateSynonyms has no batch to submit: the index is written and the
\* documents are uploaded.
StartUploads == StartUpload(1) /\ UNCHANGED <<openCalls, callLog>>

PipelineStart ==
    /\ Frame("calls")
    /\ callPc = "ready"
    /\ IF callBatches > 0 THEN StartExtract(1, 1, callLog) ELSE StartUploads
    /\ UNCHANGED <<callBatches, callDocs>>

SkipCooldown(lg, b) == lg

\* await new Promise(res => setTimeout(res, 5000)) (line 280): the timer
\* is started.
AwaitCooldown(lg, b) == Append(lg, Event("delay", b, 0))

\* extractBatch has returned: after a flush inside the loop the cooldown
\* before the next batch (lines 275-280), after the final batch the write
\* of the index and the uploads.
BatchSettled(open, lg) ==
    IF callBatch < callBatches
    THEN /\ callPc' = "cooldown"
         /\ openCalls' = open
         /\ callLog' = AwaitCooldown(lg, callBatch)
         /\ UNCHANGED <<callBatch, callAttempt, callDoc, openUploads>>
    ELSE /\ StartUpload(1)
         /\ openCalls' = open
         /\ callLog' = lg

\* The catch of extractBatch (lines 192-203).
ExtractCatch(open, lg) ==
    IF RetryAllowed(callAttempt)
    THEN /\ callPc' = "extract"
         /\ callAttempt' = callAttempt + 1
         /\ openCalls' = open \cup {ExtractCall(callBatch, callAttempt + 1)}
         /\ callLog' = Append(lg, Event("call", callBatch, callAttempt + 1))
         /\ UNCHANGED <<callBatch, callDoc, openUploads>>
    ELSE BatchSettled(open, Append(lg, Event("empty", callBatch, callAttempt)))

\* The awaited request is answered with raw output, or rejected: the try
\* block returns the entries or throws.
ExtractAnswers ==
    /\ Frame("calls")
    /\ callPc = "extract"
    /\ ExtractCall(callBatch, callAttempt) \in openCalls
    /\ \E raw \in RawOutputs \cup {Rejected} :
         LET open == openCalls \ {ExtractCall(callBatch, callAttempt)}
             ev(kind) == Append(callLog, Event(kind, callBatch, callAttempt))
         IN  IF ReturnsEntries(raw)
             THEN BatchSettled(open, ev("entries"))
             ELSE ExtractCatch(open, ev(IF raw = Rejected THEN "error"
                                        ELSE "unparsable"))
    /\ UNCHANGED <<callBatches, callDocs>>

\* The timer wins the race: the request is left open at the service.
ExtractTimesOut ==
    /\ Frame("calls")
    /\ callPc = "extract"
    /\ ExtractCall(callBatch, callAttempt) \in openCalls
    /\ ExtractCatch(openCalls,
                    Append(callLog, Event("timeout", callBatch, callAttempt)))
    /\ UNCHANGED <<callBatches, callDocs>>

\* A request the run no longer awaits is answered.
AbandonedCallEnds ==
    /\ Frame("calls")
    /\ \E call \in openCalls :
          /\ ~(callPc = "extract" /\ call = ExtractCall(callBatch, callAttempt))
          /\ openCalls' = openCalls \ {call}
    /\ UNCHANGED <<callPc, callBatches, callDocs, callBatch, callAttempt,
                   callDoc, openUploads, callLog>>

\* The 5 s between two batches have passed (line 280): the loop goes on to
\* the next call of extractBatch.
CallsCooldownDone ==
    /\ Frame("calls")
    /\ callPc = "cooldown"
    /\ StartExtract(callBatch + 1, 1,
                    Append(callLog, Event("delayed", callBatch, 0)))
    /\ UNCHANGED <<callBatches, callDocs>>

\* The awaited upload is answered: the next document, or the end of the
\* loop; a failed upload ends the run.
UploadAnswers ==
    /\ Frame("calls")
    /\ callPc = "upload"
    /\ \/ IF callDoc < callDocs
          THEN /\ callPc' = "upload"
               /\ callDoc' = callDoc + 1
               /\ openUploads' = (openUploads \ {callDoc}) \cup {callDoc + 1}
          ELSE /\ callPc' = "done"
               /\ openUploads' = openUploads \ {callDoc}
               /\ UNCHANGED callDoc
       \/ /\ callPc' = "done"
          /\ openUploads' = openUploads \ {callDoc}
          /\ UNCHANGED callDoc
    /\ UNCHANGED <<callBatches, callDocs, callBatch, callAttempt, openCalls,
                   callLog>>

CallsNext ==
    \/ PipelineStart
    \/ ExtractAnswers
    \/ ExtractTimesOut
    \/ AbandonedCallEnds
    \/ CallsCooldownDone
    \/ UploadAnswers

CallsSpecInit == CallsInit /\ IdleExcept("calls")

CallsSpec == CallsSpecInit /\ [][CallsNext]_vars

\* ------------------------------------------------------------ rateLimiter
LIMIT == 10
WINDOW_MS == 60000
MaxRequests == 13
NumUsers == 2

Users == 1..NumUsers

\* The instants at which requests arrive, in ms.
ClockValues == <<0, 60000, 60001>>

NoEntry == [count |-> 0, lastReset |-> -1]

Entry(n, t) == [count |-> n, lastReset |-> t]

RateInit ==
    /\ ratePc = "serving"
    /\ now = 1
    /\ userRateLimit = [u \in Users |-> NoEntry]
    /\ forwarded = [u \in Users |-> [i \in DOMAIN ClockValues |-> 0]]
    /\ requests = 0
    /\ lastReply = <<>>

\* next(): the request reaches the handler.
Forward(u, entry) ==
    /\ userRateLimit' = [userRateLimit EXCEPT ![u] = entry]
    /\ forwarded' = [forwarded EXCEPT ![u][now] = @ + 1]
    /\ lastReply' = <<u, "next">>

\* if (now - entry.lastReset > WINDOW_MS)
WindowOver(t, entry) == t - entry.lastReset > WINDOW_MS

\* One request of user u passes through rateLimiter.
Request(u) ==
    /\ Frame("rate")
    /\ ratePc = "serving"
    /\ requests < MaxRequests
    /\ requests' = requests + 1
    /\ LET t == ClockValues[now]
           entry == userRateLimit[u]
       IN  IF entry = NoEntry THEN Forward(u, Entry(1, t))
           ELSE IF WindowOver(t, entry) THEN Forward(u, Entry(1, t))
           ELSE IF entry.count >= LIMIT
                THEN /\ lastReply' = <<u, "200">>
                     /\ UNCHANGED <<userRateLimit, forwarded>>
                ELSE Forward(u, Entry(entry.count + 1, entry.lastReset))
    /\ UNCHANGED <<ratePc, now>>

\* Time passes.
ClockAdvances ==
    /\ Frame("rate")
    /\ ratePc = "serving"
    /\ now < Len(ClockValues)
    /\ now' = now + 1
    /\ UNCHANGED <<ratePc, userRateLimit, forwarded, requests, lastReply>>

RateNext == (\E u \in Users : Request(u)) \/ ClockAdvances

RateSpecInit == RateInit /\ IdleExcept("rate")

RateSpec == RateSpecInit /\ [][RateNext]_vars

\* -------------------------------------------------------- sendSlackAnswer
RECURSIVE SplitLoop(_, _, _)
SplitLoop(rem, max, ps) ==
    IF Len(rem) > max
    THEN LET cut == NextSlice(rem, max)
         IN  SplitLoop(trim(sliceFrom(rem, Len(cut))), max, Append(ps, cut))
    ELSE PushRemaining(ps, rem)

splitIntoSlackChunks(text, max) == SplitLoop(text, max, <<>>)

\* The answers handleSlackQuestion passes on: parseGeminiResponse returns
\* them trimmed and never empty.
SlackAnswers ==
    {t \in SlackTexts : t # <<>> /\ trim(t) = t} \cup {NoAnswerFound}

DigitChars == <<"0", "1", "2", "3", "4", "5", "6", "7", "8", "9">>

\* The decimal digits of n, as a template literal prints them.
RECURSIVE Digits(_)
Digits(n) ==
    IF n < 10 THEN <<DigitChars[n + 1]>>
    ELSE Digits(n \div 10) \o <<DigitChars[(n % 10) + 1]>>

\* `*Part ${num} of ${total}*\n\n${chunks[i]}`
PartText(num, total, chunk) ==
    <<"*", "P", "a", "r", "t", " ">> \o Digits(num)
        \o <<" ", "o", "f", " ">> \o Digits(total)
        \o <<"*", "\n", "\n">> \o chunk

IsShortStrict(text) == Len(text) < SLACK_MAX_MESSAGE_SIZE

\* if (answer.length <= SLACK_MAX_MESSAGE_SIZE)
IsShort(text) == Len(text) <= SLACK_MAX_MESSAGE_SIZE

SendInit ==
    /\ sendPc = "ready"
    /\ slackAnswer \in SlackAnswers
    /\ sendChunks = <<>> /\ sendIdx = 0
    /\ posting = <<>> /\ posts = <<>>

\* sendSlackAnswer up to its first post.
SendStart ==
    /\ Frame("send")
    /\ sendPc = "ready"
    /\ IF IsShort(slackAnswer)
       THEN /\ sendPc' = "single"
            /\ posting' = slackAnswer
            /\ UNCHANGED <<sendChunks, sendIdx>>
       ELSE LET chunks0 == splitIntoSlackChunks(slackAnswer,
                                                SLACK_MAX_MESSAGE_SIZE)
            IN  /\ sendChunks' = chunks0
                /\ sendIdx' = 0
                /\ IF 0 < Len(chunks0)
                   THEN /\ sendPc' = "parts"
                        /\ posting' = PartText(1, Len(chunks0), chunks0[1])
                   ELSE /\ sendPc' = "done"
                        /\ posting' = <<>>
    /\ UNCHANGED <<slackAnswer, posts>>

\* The awaited post has been received by Slack: the next part, or the end.
PostReturn ==
    /\ Frame("send")
    /\ sendPc \in {"single", "parts"}
    /\ posts' = Append(posts, posting)
    /\ IF sendPc = "parts" /\ sendIdx + 1 < Len(sendChunks)
       THEN /\ sendIdx' = sendIdx + 1
            /\ posting' = PartText(sendIdx + 2, Len(sendChunks),
                                   sendChunks[sendIdx + 2])
            /\ UNCHANGED sendPc
       ELSE /\ sendPc' = "done"
            /\ posting' = <<>>
            /\ UNCHANGED sendIdx
    /\ UNCHANGED <<slackAnswer, sendChunks>>

\* The awaited post is rejected: sendSlackAnswer rejects.
PostFails ==
    /\ Frame("send")
    /\ sendPc \in {"single", "parts"}
    /\ sendPc' = "failed"
    /\ posting' = <<>>
    /\ UNCHANGED <<slackAnswer, sendChunks, sendIdx, posts>>

SendNext == SendStart \/ PostReturn \/ PostFails

SendSpecInit == SendInit /\ IdleExcept("send")

SendSpec == SendSpecInit /\ [][SendNext]_vars

\* ------------------------------------------- processImagesToRag: a pass
\* The listing the loop of line 314 goes through, a name possibly more than
\* once, and the hash cache file at the start of the pass: absent, holding
\* the digest of the first image's bytes, or holding another digest for it.
\* The longest listing.
MaxListing == 3

PassListings == {l \in SeqsUpTo(Images, MaxListing) : l # <<>>}

PassFiles ==
    { clearImageHashCache(saveHashCache(EmptyMap)),
      saveHashCache(1 :> HashOf(1, imgBytes)),
      saveHashCache(1 :> getImageHash(MaxBytes)) }

PassEvent(kind, img) == [kind |-> kind, name |-> img]

\* analyzeImageWithGemini (lines 193-243) on the outcome of the analysis
\* request: the output if it is JSON, the output wrapped if it is not, and a
\* description that carries the error if the request fails.
Description(result) ==
    CASE result = "json" -> "output"
      [] result = "text" -> "wrapped output"
      [] OTHER -> "error description"

PassInit ==
    /\ passPc = "ready"
    /\ passImages \in PassListings
    /\ passFile \in PassFiles
    /\ passIdx = 0 /\ passCache = EmptyMap /\ passProcessed = {}
    /\ passDescription = "none" /\ passCount = 0 /\ passLog = <<>>

\* The loop of lines 314-357 from index i on, up to the next await or the
\* return of line 359.
PassLoop(i, cache, processed, lg) ==
    LET s == ScanImages(passImages, i, cache, processed, {})
    IN  /\ passCache' = cache
        /\ passProcessed' = s.processed
        /\ passDescription' = "none"
        /\ passIdx' = s.idx
        /\ IF s.idx > Len(passImages)
           THEN /\ passPc' = "done"
                /\ passLog' = lg
           ELSE /\ passPc' = "analyze"
                /\ passLog' = Append(lg, PassEvent("analyse", passImages[s.idx]))

\* Lines 307-312, then the loop.
PassStart ==
    /\ Frame("pass")
    /\ passPc = "ready"
    /\ PassLoop(1, loadHashCache(passFile), {}, passLog)
    /\ UNCHANGED <<passImages, passFile, passCount>>

\* The analysis request of the image in hand ends: analyzeImageWithGemini
\* returns a description, whether the request has failed or not, and the
\* upload of lines 336-348 is requested.
PassAnalyzeReturn ==
    /\ Frame("pass")
    /\ passPc = "analyze"
    /\ \E result \in {"json", "text", "failed"} :
         /\ passDescription' = Description(result)
         /\ passLog' = Append(passLog, PassEvent(result, passImages[passIdx]))
    /\ passPc' = "upload"
    /\ UNCHANGED <<passImages, passIdx, passCache, passFile, passProcessed,
                   passCount>>

\* The image file cannot be read (line 175, outside the try of
\* analyzeImageWithGemini): the catch of line 354, then the next image.
PassReadFails ==
    /\ Frame("pass")
    /\ passPc = "analyze"
    /\ PassLoop(passIdx + 1, passCache, passProcessed,
                Append(passLog, PassEvent("unread", passImages[passIdx])))
    /\ UNCHANGED <<passImages, passFile, passCount>>

\* The await of uploadTextToRag at line 343 resumes: lines 350-352 on
\* success, the catch of line 354 on failure; then the rest of the loop.
PassUploadReturn ==
    /\ Frame("pass")
    /\ passPc = "upload"
    /\ \E resp \in {"ok", "fail"} :
         LET img == passImages[passIdx]
             h == HashOf(img, imgBytes)
             cache == CacheAfterUpload(passCache, img, h, resp)
             ev == PassEvent(IF resp = "ok" THEN "uploaded" ELSE "dropped", img)
         IN  /\ passFile' = IF resp = "ok" THEN saveHashCache(cache) ELSE passFile
             /\ passCount' = IF resp = "ok" THEN passCount + 1 ELSE passCount
             /\ PassLoop(NextIndex(passImages, passIdx, resp), cache,
                         passProcessed, Append(passLog, ev))
    /\ UNCHANGED passImages

PassNext ==
    \/ PassStart
    \/ PassAnalyzeReturn
    \/ PassReadFails
    \/ PassUploadReturn

PassSpecInit == IdleExcept("pass") /\ PassInit

PassSpec == PassSpecInit /\ [][PassNext]_vars

\* ---------------------- the synonym index: written by a sync, read by a query
MaxIndexSyncs == 1

\* What synonyms.json may hold when the service starts, and what a sync run
\* may write (slackController.ts line 327).
WrittenIndexes == {<<>>, <<VpnEntry>>, <<DnsEntry, NetworkEntry>>}

\* The parts that neither the sync's write nor a query touches.
OtherPartsUnchanged ==
    UNCHANGED <<syncVars, batchVars, mergeVars, chunkVars, metaVars, splitVars,
                callVars, rateVars, sendVars, passVars>>

IndexInit ==
    /\ indexPc = "unloaded"
    /\ indexFile \in WrittenIndexes
    /\ indexSyncs = 0
    /\ indexedAt = "none"

\* The query module is loaded (part_000 lines 105-112): synonymEntries is
\* read from synonyms.json, once.
ModuleLoad ==
    /\ indexPc = "unloaded"
    /\ indexPc' = "loaded"
    /\ synonymEntries' = indexFile
    /\ UNCHANGED <<indexFile, indexSyncs, indexedAt>>
    /\ UNCHANGED <<qPc, question, relevant, synonymContext, rewriteResp,
                   rewriteQuestion, retryCounter, answerCalls, answer,
                   rewriteCalls, answerResps, boundary, delivered>>
    /\ OtherPartsUnchanged

\* A question reaches searchWiki through the Slack handler or the route.
QuestionArrives ==
    /\ indexPc = "loaded"
    /\ qPc = "idle"
    /\ qPc' = "ready"
    /\ question' \in Questions
    /\ boundary' \in {"slack", "route"}
    /\ UNCHANGED <<synonymEntries, relevant, synonymContext, rewriteResp,
                   rewriteQuestion, retryCounter, answerCalls, answer,
                   rewriteCalls, answerResps, delivered>>
    /\ UNCHANGED indexVars
    /\ OtherPartsUnchanged

\* A sync run completes: generateSynonyms has written the new index to
\* synonyms.json (slackController.ts lines 320-335).
SyncWritesIndex ==
    /\ Frame("index")
    /\ indexPc = "loaded"
    /\ indexSyncs < MaxIndexSyncs
    /\ indexFile' \in WrittenIndexes
    /\ indexSyncs' = indexSyncs + 1
    /\ indexedAt' = qPc
    /\ UNCHANGED indexPc

IndexNext ==
    \/ ModuleLoad
    \/ QuestionArrives
    \/ SyncWritesIndex
    \/ SearchWiki
    \/ FindStoreReturn
    \/ RewriteReturn
    \/ AnswerReturn
    \/ Deliver

IndexSpecInit == IdleExcept("index") /\ IndexInit

IndexSpec == IndexSpecInit /\ [][IndexNext]_vars

\* =================================================================
\* The claims
\* =================================================================
SomeRun == \E c \in Callers : InRun(pc[c])

\* The last accepted run has returned its result (line 458).
RunEndedOk == steps # <<>> /\ steps[Len(steps)] = "done"

\* C1: whatever the interleaving of the calls, at most one call is between
\* setting syncRunning to true and clearing it, the flag is true while such a
\* call exists, and a call that has read the flag as false still holds the
\* thread until it has set it: no suspension point separates the read at
\* line 389 from the write at line 394.
C1_SingleFlight ==
    /\ Cardinality({c \in Callers : InRun(pc[c])}) <= 1
    /\ SomeRun => syncRunning
    /\ \A c \in Callers : pc[c] = "checked" => running = {c}

\* A call has arrived while the run of another is suspended at an await.
C1_Witness ==
    \E c, d \in Callers :
        /\ c # d
        /\ pc[c] = "doc_upload"
        /\ pc[d] = "returned"
        /\ outcome[d] = "rejected"

\* C2: a call that finds a run in progress returns at once and changes no
\* state: the hash cache file, the remote stores, synonyms.json, the locals
\* of the run in progress and the calls of the others stay as they are, and
\* syncRunning stays true.
C2_RejectChangesNothing ==
    [][\A c \in Callers :
         (pc[c] = "idle" /\ pc'[c] # "idle" /\ syncRunning)
         => /\ pc'[c] = "returned"
            /\ outcome'[c] = "rejected"
            /\ ret'[c] = Undefined
            /\ syncRunning'
            /\ UNCHANGED <<persist, syncLocals, genLocals, imgLocals, history>>
            /\ \A d \in Callers \ {c} : pc'[d] = pc[d]]_vars

\* A call was rejected while the run in progress is uploading an image and
\* the hash cache file holds a record.
C2_Witness ==
    \E c, d \in Callers :
        /\ pc[c] = "returned"
        /\ outcome[c] = "rejected"
        /\ pc[d] = "img_upload"
        /\ hashFile.exists
        /\ syncRunning

\* C3: every accepted run ends with syncRunning = false, whether it returns
\* its result, fails validation or ends in the catch of an exception raised
\* while rebuilding or uploading; and a trigger that arrives while no run is
\* in progress is accepted, not rejected.
C3_FlagCleared ==
    [][\A c \in Callers :
         /\ (InRun(pc[c]) /\ ~InRun(pc'[c])) => ~syncRunning'
         /\ (pc[c] = "checked" /\ pc'[c] = "returned") => ~syncRunning'
         /\ (pc[c] = "idle" /\ pc'[c] # "idle" /\ ~SomeRun) => pc'[c] = "checked"]_vars

\* A run has ended in the catch of an exception raised after validation, and
\* the next trigger has been accepted.
C3_Witness ==
    \E c, d \in Callers :
        /\ pc[c] = "returned"
        /\ outcome[c] = "failed"
        /\ pc[d] = "checked"
        /\ Len(steps) > 1
        /\ ~syncRunning

\* C4: when FILES_DIR does not exist or holds no .json file, the run ends at
\* validation having mutated nothing: the hash cache file, synonyms.json and
\* the remote stores (none deleted, none created, nothing uploaded) are as
\* before, and the flag is false again.
C4_ValidationAbort ==
    [][\A c \in Callers :
         (/\ pc[c] = "checked"
          /\ pc'[c] # "checked"
          /\ (~dirExists \/ {f \in dirFiles : f.ext = "json"} = {}))
         => /\ UNCHANGED <<hashFile, synFile, stores, storeSeq>>
            /\ ~InRun(pc'[c])
            /\ ~syncRunning']_vars

\* A run has failed validation while a store and a hash cache file of an
\* earlier run exist.
C4_Witness ==
    \E c \in Callers :
        /\ pc[c] = "returned"
        /\ outcome[c] = "failed"
        /\ steps = <<"validate">>
        /\ DOMAIN stores # {}
        /\ hashFile.exists
        /\ DOMAIN hashFile.recs # {}

Rank(p) ==
    CASE p = "validate" -> 1
      [] p = "clear" -> 2
      [] p = "delete" -> 3
      [] p = "create" -> 4
      [] p = "synonyms" -> 5
      [] p = "documents" -> 6
      [] p = "images" -> 7
      [] p = "done" -> 8

Uploading == \E c \in Callers : pc[c] \in {"doc_upload", "img_analyze", "img_upload"}

\* C5: the phases of an accepted run are entered in the order validation,
\* hash cache clear, deletion of the existing store, creation of the new
\* store, generateSynonyms, document uploads, asset processing, each only
\* after the one before has ended: the store is deleted or created only with
\* the hash cache file cleared, the uploads start only after generateSynonyms
\* has ended and the new store exists, the assets are processed only after
\* every document is uploaded; every upload goes to the store the run created.
C5_StepOrder ==
    /\ \A i, j \in DOMAIN steps : i < j => Rank(steps[i]) < Rank(steps[j])
    /\ \A c \in Callers :
         /\ pc[c] \in {"listing", "deleting", "creating"} =>
              /\ ~hashFile.exists
              /\ created = NoStore
         /\ pc[c] = "creating" => DOMAIN stores = {}
         /\ pc[c] \in {"extract1", "extract2", "cooldown"} =>
              /\ ~synFile.exists
              /\ created \in DOMAIN stores
              /\ stores[created] = {}
    /\ Uploading =>
         /\ created # NoStore
         /\ storeName = created
         /\ DOMAIN stores = {created}
         /\ nBatches = 0
    /\ \A c \in Callers :
         /\ pc[c] = "doc_upload" =>
              /\ analysed = {}
              /\ stores[created] = {DocItem(textFiles[k]) : k \in 1..(docIdx - 1)}
         /\ pc[c] \in {"img_analyze", "img_upload"} =>
              \A k \in DOMAIN textFiles : DocItem(textFiles[k]) \in stores[created]

\* A run of all the phases that has deleted the store of an earlier run.
C5_Witness ==
    /\ RunEndedOk
    /\ steps = <<"validate", "clear", "delete", "create", "synonyms", "documents", "images", "done">>
    /\ storeSeq > 1
    /\ synFile.exists

\* The image was uploaded by an earlier run (the hash cache file held its
\* record when this run was accepted) and its file has the same bytes now.
SameBytes(A) == HasRecord(cacheAtStart, A) /\ cacheAtStart[A] = getImageHash(imgBytes[A])

\* The image was uploaded by an earlier run and its file has other bytes now.
Changed(A) == HasRecord(cacheAtStart, A) /\ cacheAtStart[A] # getImageHash(imgBytes[A])

ImagePass == \E c \in Callers : pc[c] \in {"img_analyze", "img_upload"}

C7_Original ==
    RunEndedOk =>
        \A A \in Images :
            Changed(A) =>
                /\ A \in analysed
                /\ HasRecord(hashFile.recs, A)
                /\ hashFile.recs[A] = getImageHash(imgBytes[A])

\* C7 amended: an image whose bytes differ between run N and run N+1 is
\* analysed by run N+1 and its upload is requested with the digest of the
\* new bytes; after the run its record holds the digest of the new bytes
\* when that upload succeeded, and it has no record when the upload failed:
\* the record of the old bytes never outlives the run.
C7_Amended ==
    /\ \A c \in Callers :
         pc[c] \in {"img_analyze", "img_upload"} =>
            hash = getImageHash(imgBytes[images[imgIdx]])
    /\ ImagePass =>
         \A A \in DOMAIN hashFile.recs : hashFile.recs[A] = getImageHash(imgBytes[A])
    /\ RunEndedOk =>
         \A A \in Images :
            Changed(A) =>
                /\ A \in analysed
                /\ HasRecord(hashFile.recs, A) =>
                     /\ hashFile.recs[A] = getImageHash(imgBytes[A])
                     /\ ImageItem(A, getImageHash(imgBytes[A])) \in stores[created]
                /\ ~HasRecord(hashFile.recs, A) <=>
                     ImageItem(A, getImageHash(imgBytes[A])) \in errLog

\* A run has ended after uploading an image whose bytes differ from those an
\* earlier run had uploaded: the record holds the new digest.
C7_Witness ==
    /\ RunEndedOk
    /\ \E A \in Images :
         /\ Changed(A)
         /\ A \in analysed
         /\ HasRecord(hashFile.recs, A)
         /\ hashFile.recs[A] = getImageHash(imgBytes[A])

\* C8: in every state a run or a crash can leave, each record of the hash
\* cache file is the digest with which the image was stored in the one
\* remote store that exists; and the file is written right after an upload
\* has succeeded, before the next image is examined: whenever the image pass
\* is suspended the file holds exactly the records of the pass's in-memory
\* cache, and every earlier image of the pass has its record or is logged as
\* failed.
C8_CacheMatchesUploads ==
    /\ Cardinality(DOMAIN stores) <= 1
    /\ ~hashFile.exists => hashFile.recs = EmptyMap
    /\ \A A \in DOMAIN hashFile.recs :
         \E s \in DOMAIN stores : ImageItem(A, hashFile.recs[A]) \in stores[s]
    /\ \A c \in Callers :
         pc[c] \in {"img_analyze", "img_upload"} =>
            /\ loadHashCache(hashFile) = hashCache
            /\ \A A \in DOMAIN hashFile.recs :
                 ImageItem(A, hashFile.recs[A]) \in stores[storeName]
            /\ \A k \in 1..(imgIdx - 1) :
                 \/ HasRecord(hashFile.recs, images[k])
                 \/ \E h \in {getImageHash(b) : b \in Bytes} :
                      ImageItem(images[k], h) \in errLog

\* The pass awaits the upload of its second image: the first is stored and
\* recorded, the second is stored and not yet recorded.
C8_Witness ==
    \E c \in Callers :
        /\ pc[c] = "img_upload"
        /\ imgIdx = 2
        /\ uploadResp = "ok"
        /\ HasRecord(hashFile.recs, images[1])
        /\ ~HasRecord(hashFile.recs, images[2])
        /\ ImageItem(images[2], hash) \in stores[storeName]

\* C9 as stated: when the upload of a document fails, the failure is logged
\* and the run goes on: it requests the upload of the next document or the
\* analysis of the first image, or it returns its result.
C9_DocFailureSkipped ==
    [][\A c \in Callers :
         (pc[c] = "doc_upload" /\ errLog' # errLog)
         => \/ pc'[c] \in {"doc_upload", "img_analyze"}
            \/ pc'[c] = "returned" /\ outcome'[c] = "ok"]_vars

\* C10: when the upload of an image fails, the failure is logged, the hash
\* cache (the file and the in-memory copy) and the count of uploaded images
\* stay as they are, and the pass goes on with the next image; after the
\* last image the run returns its result with that count.
C10_AssetFailureSkipped ==
    [][\A c \in Callers :
         (pc[c] = "img_upload" /\ uploadResp = "fail" /\ pc'[c] \notin {"img_upload", "idle"})
         => /\ ImageItem(images[imgIdx], hash) \in errLog'
            /\ hashFile' = hashFile
            /\ IF imgIdx < Len(images)
               THEN /\ pc'[c] = "img_analyze"
                    /\ images' = images
                    /\ imgIdx' = imgIdx + 1
                    /\ images[imgIdx + 1] \in analysed'
                    /\ hashCache' = hashCache
                    /\ uploadedImages' = uploadedImages
               ELSE /\ pc'[c] = "returned"
                    /\ outcome'[c] = "ok"
                    /\ ret'[c].defined
                    /\ ret'[c].imageFilesUploaded = uploadedImages]_vars

\* The upload of the first image has failed and the pass is analysing the
\* second: the first is logged and has no record.
C10_Witness ==
    \E c \in Callers :
        /\ pc[c] = "img_analyze"
        /\ imgIdx = 2
        /\ ImageItem(images[1], getImageHash(imgBytes[images[1]])) \in errLog
        /\ ~HasRecord(hashFile.recs, images[1])
        /\ uploadedImages = 0

\* The run has failed during validation or rebuilding: it has not reached
\* the document uploads.
FailedBeforeUploads(c) ==
    /\ pc[c] = "returned"
    /\ outcome[c] = "failed"
    /\ \A i \in DOMAIN steps : steps[i] \notin {"documents", "images", "done"}

\* C11 as stated: an exception raised during validation or rebuilding (the
\* hash cache clear, the deletion or creation of the store, the run of
\* generateSynonyms) is fatal to the run: once generateSynonyms has logged
\* its fatal error the run requests no upload, and the response that the
\* route sends for a run that failed before the uploads is an error.
C11_RebuildFailureFatal ==
    [][\A c \in Callers :
         /\ GenItem \in errLog' => pc'[c] \notin {"doc_upload", "img_analyze", "img_upload"}
         /\ (FailedBeforeUploads(c) /\ pc'[c] = "idle" /\ lastResponse' # "none")
              => lastResponse' = "500"]_vars

\* C12 as stated: the synonyms attached to each document that the run
\* uploads are the clusters, among those the document mentions, of the index
\* that the run's generateSynonyms has just written to synonyms.json.
C12_FreshIndexUsed ==
    \A c \in Callers :
        pc[c] \in {"doc_upload", "img_analyze", "img_upload"} =>
            \A k \in 1..Len(textFiles) :
                \A it \in stores[storeName] :
                    (it.kind = "doc" /\ it.name = textFiles[k].base) =>
                        it.syn = {t \in LoadSynonymConfigs(synFile) : Mentions(textFiles[k], t)}

RECURSIVE SumLen(_)
SumLen(b) == IF b = <<>> THEN 0 ELSE Head(b).len + SumLen(Tail(b))

RECURSIVE Flatten(_)
Flatten(bs) == IF bs = <<>> THEN <<>> ELSE Head(bs) \o Flatten(Tail(bs))

\* C13: every batch that generateSynonyms submits to extractBatch holds at
\* most MAX_CHARS_PER_BATCH characters of unit text, unless it is made of one
\* unit that alone is longer; no batch is empty, and the batches in order
\* are the units in order, each whole and in one batch.
C13_BatchWithinBudget ==
    batchPc = "done" =>
        /\ \A k \in DOMAIN submitted :
              /\ Len(submitted[k]) >= 1
              /\ \/ SumLen(submitted[k]) <= MAX_CHARS_PER_BATCH
                 \/ Len(submitted[k]) = 1 /\ submitted[k][1].len > MAX_CHARS_PER_BATCH
        /\ Flatten(submitted) = UnitsOf(wikiDocs)

\* A document longer than the budget has been cut into chunks, and the
\* units have gone into several batches, one of them of two units.
C13_Witness ==
    /\ batchPc = "done"
    /\ Len(submitted) >= 3
    /\ Len(UnitsOf(wikiDocs)) > Len(wikiDocs)
    /\ \E k \in DOMAIN submitted : Len(submitted[k]) = 2

Extracting(p) == p \in {"extract1", "extract2"}

\* C14: for each batch the extraction request is made once, and once more
\* when that attempt fails; never a third time.  A batch whose second
\* attempt fails adds nothing to the results, and generateSynonyms goes on:
\* it waits the cooldown and requests the next batch while one is left, and
\* after the last batch it merges, writes synonyms.json with the results
\* of the batches and returns to the run.
C14_RetryOnceThenSkip ==
    [][\A c \in Callers :
         /\ Extracting(pc'[c]) => attempt' \in {1, 2}
         /\ (pc[c] = "extract1" /\ pc'[c] = "extract2")
              => /\ attempt = 1 /\ attempt' = 2
                 /\ UNCHANGED <<batchNo, nBatches, results>>
         /\ (Extracting(pc[c]) /\ pc'[c] = "extract1")
              => pc[c] = "extract1" /\ UNCHANGED genLocals
         /\ (pc[c] = "extract2" /\ pc'[c] = "extract2") => UNCHANGED genLocals
         /\ (Extracting(pc[c]) /\ pc'[c] \notin {"extract1", "extract2", "idle"})
              => IF batchNo < nBatches
                 THEN /\ pc'[c] = "cooldown"
                      /\ results \subseteq results'
                      /\ UNCHANGED <<batchNo, nBatches>>
                 ELSE /\ pc'[c] = "doc_upload"
                      /\ \/ synFile'.exists /\ results \subseteq synFile'.entries
                         \/ GenItem \in errLog'
         /\ (pc[c] = "cooldown" /\ pc'[c] \notin {"cooldown", "idle"})
              => /\ pc'[c] = "extract1"
                 /\ batchNo' = batchNo + 1
                 /\ UNCHANGED <<nBatches, results>>]_vars

\* The first of two batches is done and the first attempt of the second
\* has failed: its one retry is in progress.
C14_Witness ==
    \E c \in Callers :
        /\ pc[c] = "extract2"
        /\ attempt = 2
        /\ batchNo = 2
        /\ nBatches = 2

InGenerate(p) == p \in {"extract1", "extract2", "cooldown"}

\* C15: generateSynonyms removes synonyms.json before its first extraction
\* request and writes it once, at its end, after the merge: while it is
\* suspended no synonyms.json exists, the file is written only in the step
\* that ends generateSynonyms, and a crash or the fatal error of
\* generateSynonyms in between leaves no file (a fatal error before the
\* removal leaves the file as it was).
C15_NoIndexWhileExtracting ==
    [][/\ \A c \in Callers :
            /\ InGenerate(pc'[c]) => ~synFile'.exists
            /\ (InGenerate(pc[c]) /\ pc'[c] = "idle") => ~synFile'.exists
       /\ (synFile'.exists /\ synFile' # synFile) =>
            \E c \in Callers :
                /\ pc[c] \in {"creating", "extract1", "extract2"}
                /\ pc'[c] = "doc_upload"
                /\ results \subseteq synFile'.entries
       /\ (GenItem \in errLog' /\ GenItem \notin errLog) =>
            \/ ~synFile'.exists
            \/ \E c \in Callers : pc[c] = "creating" /\ synFile' = synFile]_vars

\* The process was started with an index on disk; the run in progress has
\* removed the file and waits between two batches.
C15_Witness ==
    \E c \in Callers :
        /\ pc[c] = "cooldown"
        /\ synonymConfigs # {}
        /\ ~synFile.exists

Clean(str) == toLowerCase(trim(str))

Range(seq) == {seq[i] : i \in DOMAIN seq}

\* The cleaned synonyms that the raw entries of term t carry.
RawSynonymsOf(t) ==
    UNION {{Clean(rawResults[i].synonyms[j]) : j \in DOMAIN rawResults[i].synonyms} :
              i \in {k \in DOMAIN rawResults : Clean(rawResults[k].term) = t}}
    \ {<<>>, t}

\* C16: every entry that generateSynonyms persists has a term that is not
\* empty, is trimmed and lowercased and occurs in no other entry, and a
\* synonym list that is not empty, has no duplicates, holds only non-empty
\* trimmed lowercased strings and not the term; the list holds exactly the
\* cleaned synonyms of all raw entries of that term, and every term with
\* such a synonym is persisted.
C16_MergedEntriesClean ==
    mergePc = "done" =>
        /\ \A i \in DOMAIN finalOutput :
              LET e == finalOutput[i]
              IN /\ e.term # <<>>
                 /\ e.term = Clean(e.term)
                 /\ \A k \in DOMAIN finalOutput : finalOutput[k].term = e.term => k = i
                 /\ e.synonyms # <<>>
                 /\ \A j, k \in DOMAIN e.synonyms : e.synonyms[j] = e.synonyms[k] => j = k
                 /\ \A j \in DOMAIN e.synonyms :
                       /\ e.synonyms[j] # <<>>
                       /\ e.synonyms[j] = Clean(e.synonyms[j])
                       /\ e.synonyms[j] # e.term
                 /\ Range(e.synonyms) = RawSynonymsOf(e.term)
        /\ \A i \in DOMAIN rawResults :
              LET t == Clean(rawResults[i].term)
              IN (t # <<>> /\ RawSynonymsOf(t) # {}) =>
                    \E k \in DOMAIN finalOutput : finalOutput[k].term = t

\* Two raw entries whose terms differ only in case and blanks have been
\* merged into one entry: the first carried only the term itself as a
\* synonym, which is dropped, the second the synonym that is kept.
C16_Witness ==
    /\ mergePc = "done"
    /\ Len(rawResults) = 2
    /\ rawResults[1].term # rawResults[2].term
    /\ Len(finalOutput) = 1
    /\ Len(finalOutput[1].synonyms) = 1
    /\ rawResults[1].synonyms # <<>>
    /\ \A j \in DOMAIN rawResults[1].synonyms :
          Clean(rawResults[1].synonyms[j]) = Clean(rawResults[1].term)
    /\ rawResults[2].synonyms # <<>>

\* C17: the merge is idempotent: the merge of the raw entries followed by
\* the same raw entries again is the index the merge of the raw entries
\* gives, and the merge of that index is the index itself.
C17_MergeIdempotent ==
    mergePc = "done" =>
        /\ MergeSynonyms(rawResults \o rawResults) = finalOutput
        /\ MergeSynonyms(finalOutput) = finalOutput

\* The raw entries held a synonym twice and a term in two spellings; the
\* index has two entries.
C17_Witness ==
    /\ mergePc = "done"
    /\ Len(finalOutput) = 2
    /\ \E i \in DOMAIN rawResults :
         /\ Len(rawResults[i].synonyms) = 2
         /\ Clean(rawResults[i].synonyms[1]) = Clean(rawResults[i].synonyms[2])
         /\ rawResults[i].synonyms[1] # rawResults[i].synonyms[2]

\* ---- C18
RewriteStarted ==
    \/ qPc \in {"rewrite", "answer", "returned"}
    \/ qPc = "thrown" /\ answer.error # "store"

Hits(e) ==
    LET lowerQ == toLowerCase(question)
    IN  \/ includes(lowerQ, toLowerCase(e.term))
        \/ \E i \in DOMAIN e.synonyms : includes(lowerQ, toLowerCase(e.synonyms[i]))

PosInIndex(e) == CHOOSE k \in DOMAIN synonymEntries : synonymEntries[k] = e

\* C18: findRelevantSynonyms returns exactly the entries of the index whose
\* lowercased term, or one of whose lowercased synonyms, is a substring of
\* the lowercased question: every such entry, no other, each once, in the
\* order of the index, however many there are.  With the vpn entry in the
\* index, the question about a virtual private network selects it and the
\* context block of the rewrite prompt names its term.
C18_RelevantExactlyTheHits ==
    RewriteStarted =>
        /\ \A k \in DOMAIN synonymEntries :
              Hits(synonymEntries[k])
                 <=> \E i \in DOMAIN relevant : relevant[i] = synonymEntries[k]
        /\ \A i \in DOMAIN relevant :
              \E k \in DOMAIN synonymEntries : relevant[i] = synonymEntries[k]
        /\ \A i, j \in DOMAIN relevant :
              i < j => PosInIndex(relevant[i]) < PosInIndex(relevant[j])
        /\ synonymContext = buildSynonymContext(relevant)
        /\ (question = VpnQuestion /\ \E k \in DOMAIN synonymEntries :
                                         synonymEntries[k] = VpnEntry)
              => /\ \E i \in DOMAIN relevant : relevant[i] = VpnEntry
                 /\ includes(synonymContext,
                             <<"-", " ">> \o VpnEntry.term \o <<":", " ">>)

C18_Witness ==
    /\ qPc = "rewrite"
    /\ question = VpnQuestion
    /\ synonymEntries = <<DnsEntry, VpnEntry, NetworkEntry>>
    /\ relevant = <<VpnEntry, NetworkEntry>>

\* ---- C19
\* C19: when the generation call of the query rewrite fails, the error
\* leaves rewriteUserQuestionForFileSearch and searchWiki uncaught: the
\* query ends with that error, no answer generation has been called for
\* it, and the unrewritten question is never used in place of the rewrite.
C19_RewriteFailurePropagates ==
    rewriteResp = "fail" =>
        /\ qPc = "thrown"
        /\ answer = Thrown("rewrite")
        /\ answerCalls = <<>>
        /\ rewriteQuestion = <<>>

C19_Witness ==
    /\ rewriteResp = "fail"
    /\ qPc = "thrown"
    /\ question = VpnQuestion
    /\ relevant # <<>>

\* ---- C20
TooLong(i) == Len(trim(synonymList[i])) > maxLen

\* C20: whatever the list of terms and whatever maxLen >= 1, every chunk
\* chunkSynonyms returns is non-empty and at most maxLen characters long;
\* a (trimmed) term longer than maxLen is cut to its first maxLen
\* characters and is a chunk of its own: the chunks are those of the terms
\* before it, then the cut term, then those of the terms after it.
C20_ChunksWithinMaxLen ==
    chunkPc = "done" =>
        /\ \A k \in DOMAIN chunks : chunks[k] # <<>> /\ Len(chunks[k]) <= maxLen
        /\ \A i \in DOMAIN synonymList :
              TooLong(i) =>
                  chunks = chunkSynonyms(SubSeq(synonymList, 1, i - 1), maxLen)
                             \o << SubSeq(trim(synonymList[i]), 1, maxLen) >>
                             \o chunkSynonyms(SubSeq(synonymList, i + 1,
                                                     Len(synonymList)), maxLen)

C20_Witness ==
    /\ chunkPc = "done"
    /\ maxLen = 4
    /\ synonymList = << <<"a">>, <<"a">>, <<"g", " ", "h", "i", "j">> >>
    /\ TooLong(3)
    /\ chunks = << <<"a", ",", " ", "a">>, <<"g", " ", "h", "i">> >>

\* ---- C21
\* The terms as the chunks should carry them: trimmed, the blank ones left
\* out, the over-long ones cut to maxLen.
RECURSIVE CarriedTerms(_)
CarriedTerms(terms) ==
    IF terms = <<>> THEN <<>>
    ELSE LET t == trim(Head(terms))
         IN  IF t = <<>> THEN CarriedTerms(Tail(terms))
             ELSE <<SubSeq(t, 1, IF maxLen < Len(t) THEN maxLen ELSE Len(t))>>
                     \o CarriedTerms(Tail(terms))

\* The pieces of text between the occurrences of ", ", read left to
\* right; the empty text holds no piece.
RECURSIVE SplitFromPos(_, _, _)
SplitFromPos(text, start, i) ==
    IF i + 1 > Len(text) THEN <<SubSeq(text, start, Len(text))>>
    ELSE IF text[i] = "," /\ text[i + 1] = " "
         THEN <<SubSeq(text, start, i - 1)>> \o SplitFromPos(text, i + 2, i + 2)
         ELSE SplitFromPos(text, start, i + 1)

SplitTerms(text) == IF text = <<>> THEN <<>> ELSE SplitFromPos(text, 1, 1)

JoinedChunks == join(chunks, <<",", " ">>)

HasSeparator(t) == \E i \in 1..(Len(t) - 1) : t[i] = "," /\ t[i + 1] = " "

\* C21 as stated: for every term list, joining the chunks with ", " and
\* splitting again gives the trimmed non-empty terms in input order, each
\* once, an over-long term as its first maxLen characters.
C21_Original ==
    chunkPc = "done" => SplitTerms(JoinedChunks) = CarriedTerms(synonymList)

\* C21 amended: the joined chunks are, character for character, the
\* trimmed non-empty (cut) terms joined with ", " in input order; splitting
\* gives those terms back, each once and in order, when none of them holds
\* ", " itself, and gives more pieces than terms when one does.
C21_Amended ==
    chunkPc = "done" =>
        LET carried == CarriedTerms(synonymList)
        IN  /\ JoinedChunks = join(carried, <<",", " ">>)
            /\ (\A i \in DOMAIN carried : ~HasSeparator(carried[i]))
                  => SplitTerms(JoinedChunks) = carried
            /\ (\E i \in DOMAIN carried : HasSeparator(carried[i]))
                  => Len(SplitTerms(JoinedChunks)) > Len(carried)

C21_Witness ==
    /\ chunkPc = "done"
    /\ maxLen = 4
    /\ synonymList = << <<" ", "d", "e", "f", " ">>, <<" ">>,
                        <<"g", " ", "h", "i", "j">> >>
    /\ chunks = << <<"d", "e", "f">>, <<"g", " ", "h", "i">> >>
    /\ SplitTerms(JoinedChunks) = chunks

\* ---- C22
\* C22: every value of the metadata list attached to an uploaded document
\* is at most 255 characters long, whatever the document and the index.
C22_MetadataValuesWithin255 ==
    metaPc = "done" =>
        \A i \in DOMAIN metadata : Len(metadata[i].stringValue) <= 255

\* ---- C23
\* C23: the chunks splitIntoSlackChunks returns, concatenated in order,
\* are the input text character for character (so a text of 6,000
\* characters gives chunks of 6,000 characters in all).
C23_ChunksReproduceText ==
    splitPc = "done" => Flatten(parts) = slackText

\* ---- C24
\* C24: whatever the text and maxSize >= 1, every chunk of
\* splitIntoSlackChunks is non-empty and at most maxSize characters long.
C24_ChunksWithinMaxSize ==
    \A k \in DOMAIN parts : parts[k] # <<>> /\ Len(parts[k]) <= maxSize

C24_Witness ==
    /\ splitPc = "done"
    /\ maxSize = SLACK_MAX_MESSAGE_SIZE
    /\ Len(slackText) > 2 * SLACK_MAX_MESSAGE_SIZE
    /\ Len(parts) = 3
    /\ Len(parts[1]) = SLACK_MAX_MESSAGE_SIZE

\* ---- C25
QualifyingPeriods(first) ==
    {i \in DOMAIN first : first[i] = "." /\ i - 1 > MinPeriodOffset}

Blank(text) == trim(text) = <<>>

\* C26: searchWiki calls the answer generation at most twice for a query,
\* the second time only after the first call has returned an empty or
\* blank answer; it returns the first answer that is not blank, or the
\* sentinel 'No answer found.' when both are blank; the rewrite is called
\* once for the query and both calls carry its result.
C26_AtMostTwoAnswerCalls ==
    /\ Len(answerCalls) <= 2
    /\ rewriteCalls <= 1
    /\ answerCalls # <<>> => rewriteCalls = 1 /\ rewriteResp = "ok"
    /\ \A i \in DOMAIN answerCalls : answerCalls[i] = rewriteQuestion
    /\ Len(answerCalls) = 2 => Len(answerResps) >= 1 /\ Blank(answerResps[1])
    /\ \A i \in DOMAIN answerResps :
          i < Len(answerResps) => Blank(answerResps[i])
    /\ qPc = "returned" =>
          LET last == answerResps[Len(answerResps)]
          IN  IF Blank(last)
              THEN /\ Len(answerResps) = 2
                   /\ answer = Answer(NoAnswerFound)
              ELSE answer = Answer(last)

C26_Witness ==
    /\ qPc = "returned"
    /\ Len(answerCalls) = 2
    /\ answerResps = << <<" ">>, <<" ", "o", "k", " ">> >>
    /\ answer = Answer(<<" ", "o", "k", " ">>)

\* ---- C27
\* C27: during a sync no two external calls run in parallel: at most one
\* extraction request is open (a batch's first attempt and its retry never
\* overlap, the next batch starts only when the previous one's request has
\* ended) and at most one upload, and never both.
C27_OneExternalCallAtATime ==
    Cardinality(openCalls) + Cardinality(openUploads) <= 1

\* ---- C28
\* C28: a failure on the query path (store lookup, rewrite, answer
\* generation) reaches the caller of the boundary, Slack handler or POST
\* /gemini/query, as a textual answer, the real one or the sentinel 'No
\* answer found.', never as an error.
C28_FailureSurfacesAsAnswer ==
    (qPc = "thrown" /\ delivered # NoReply) =>
        /\ delivered.status \in {"200", "in_channel"}
        /\ \/ delivered.text = NoAnswerFound
           \/ \E i \in DOMAIN answerResps :
                 ~Blank(answerResps[i]) /\ delivered.text = answerResps[i]

\* ---- C29
RECURSIVE ForwardedBetween(_, _, _)
ForwardedBetween(u, i, j) ==
    IF i > j THEN 0 ELSE forwarded[u][i] + ForwardedBetween(u, i + 1, j)

\* C29: for each Slack user the rate limiter passes at most 10 requests to
\* the handler within any interval of 60 seconds (every further request of
\* the user in such an interval is answered 200 and not passed on).
C29_TenPerSixtySeconds ==
    \A u \in Users : \A i, j \in DOMAIN ClockValues :
        (i <= j /\ ClockValues[j] - ClockValues[i] < WINDOW_MS)
           => ForwardedBetween(u, i, j) <= LIMIT

Ended(e) == e.kind \in {"entries", "empty"}

\* C31: between two consecutive batch submissions of generateSynonyms a
\* full cooldown elapses: the timer is started only after extractBatch has
\* returned for the earlier batch (its retry included) and has fired before
\* the later batch's request is made, so no delay lies inside a request.
C31_CooldownBetweenBatches ==
    \A i \in DOMAIN callLog :
        LET e == callLog[i]
        IN  /\ (e.kind = "call" /\ e.attempt = 1 /\ e.batch > 1) =>
                  /\ i > 3
                  /\ callLog[i - 1] = Event("delayed", e.batch - 1, 0)
                  /\ callLog[i - 2] = Event("delay", e.batch - 1, 0)
                  /\ Ended(callLog[i - 3])
                  /\ callLog[i - 3].batch = e.batch - 1
            /\ e.kind = "delay" => i > 1 /\ Ended(callLog[i - 1])
            /\ e.kind = "delayed" => i > 1 /\ callLog[i - 1].kind = "delay"
            /\ (e.kind = "empty") => e.attempt = 2

C31_Witness ==
    \E i \in DOMAIN callLog :
        /\ callLog[i] = Event("call", 2, 1)
        /\ i > 3
        /\ callLog[i - 3] = Event("empty", 1, 2)

\* ---- C32
\* C32: when the raw output of a request parses neither directly nor with
\* the code-fence markers stripped, extractBatch gives up: it returns an
\* empty result for the batch and makes no further request for it.
C32_SecondParseFailureGivesUp ==
    \A i \in DOMAIN callLog :
        callLog[i].kind = "unparsable" =>
            /\ i < Len(callLog)
            /\ callLog[i + 1] = Event("empty", callLog[i].batch,
                                      callLog[i].attempt)

\* ---- C33
\* Image img has been uploaded after position i of the pass.
UploadedAfter(img, i) ==
    \E j \in DOMAIN passLog : j > i /\ passLog[j] = PassEvent("uploaded", img)

\* C33: when the analysis request of an image fails, the image is skipped:
\* nothing is uploaded for it and no digest is recorded for it in the hash
\* cache, and the pass goes on with the next image.
C33_FailedAnalysisIsSkipped ==
    \A i \in DOMAIN passLog :
        passLog[i].kind = "failed" =>
            LET img == passLog[i].name
                recs == loadHashCache(passFile)
            IN  /\ ~UploadedAfter(img, i)
                /\ ~(HasRecord(recs, img) /\ recs[img] = HashOf(img, imgBytes))

\* ---- C34
\* The number of events of this kind for image img in the pass.
RECURSIVE CountEvents(_, _, _)
CountEvents(lg, kind, img) ==
    IF lg = <<>> THEN 0
    ELSE (IF Head(lg) = PassEvent(kind, img) THEN 1 ELSE 0)
             + CountEvents(Tail(lg), kind, img)

\* C34: within one pass of processImagesToRag each image name is analysed
\* and uploaded at most once, however often the listing holds it and
\* whatever the hash cache holds for it.
C34_EachNameAtMostOnce ==
    \A img \in Images :
        /\ CountEvents(passLog, "analyse", img) <= 1
        /\ CountEvents(passLog, "uploaded", img) <= 1

\* A name listed twice whose first upload failed: no digest was recorded,
\* and the second occurrence is still skipped.
C34_Witness ==
    /\ passPc = "done"
    /\ passImages = <<1, 1>>
    /\ passLog # <<>>
    /\ passLog[Len(passLog)] = PassEvent("dropped", 1)
    /\ CountEvents(passLog, "analyse", 1) = 1

\* ---- C35
\* The units of document n among the submitted ones, in submission order.
SubmittedOf(n) == SelectSeq(Flatten(submitted), LAMBDA u : u.name = n)

\* ceil(l / b)
CeilDiv(l, b) == (l + b - 1) \div b

\* C35: a document of length L > B is submitted as ceil(L/B) units
\* <name>#1 .. <name>#k in order, each of at most B characters and all but
\* the last of exactly B, whose texts put together in index order are the
\* document's text; a single document of 50,000 characters gives 3 units
\* and at least 2 batch flushes.
C35_OversizedDocSplitInOrder ==
    batchPc = "done" =>
        /\ \A n \in DOMAIN wikiDocs :
              wikiDocs[n].len > MAX_CHARS_PER_BATCH =>
                 LET us == SubmittedOf(n)
                     k == Len(us)
                 IN  /\ k = CeilDiv(wikiDocs[n].len, MAX_CHARS_PER_BATCH)
                     /\ \A j \in 1..k :
                           /\ us[j].index = j
                           /\ us[j].len <= MAX_CHARS_PER_BATCH
                           /\ j < k => us[j].len = MAX_CHARS_PER_BATCH
                           /\ us[j].from = (IF j = 1 THEN 0
                                            ELSE us[j - 1].from + us[j - 1].len)
                     /\ us[k].from + us[k].len = wikiDocs[n].len
        /\ wikiDocs = <<WikiDoc(1, 50000)>> =>
              /\ Len(SubmittedOf(1)) = 3
              /\ Len(submitted) >= 2

C35_Witness ==
    /\ batchPc = "done"
    /\ wikiDocs = <<WikiDoc(1, 50000)>>
    /\ Len(submitted) = 3

\* ---- C38
\* C38: every unit of the loaded documents is submitted in exactly one
\* batch: each document's text is submitted whole and once, the units
\* follow each other in document order and chunk-index order through the
\* sequence of batches, and no batch is empty.
C38_EveryUnitInOneBatch ==
    batchPc = "done" =>
        LET all == Flatten(submitted)
        IN  /\ \A k \in DOMAIN submitted : submitted[k] # <<>>
            /\ \A n \in DOMAIN wikiDocs :
                  LET us == SubmittedOf(n)
                  IN  /\ us # <<>>
                      /\ SumLen(us) = wikiDocs[n].len
                      /\ \A j \in DOMAIN us :
                            us[j].from = (IF j = 1 THEN 0
                                          ELSE us[j - 1].from + us[j - 1].len)
            /\ \A i, j \in DOMAIN all :
                  i < j =>
                     \/ all[i].name < all[j].name
                     \/ all[i].name = all[j].name /\ all[i].index < all[j].index

\* Three documents, one of them cut into chunks, in several batches.
C38_Witness ==
    /\ batchPc = "done"
    /\ Len(wikiDocs) = 3
    /\ Len(Flatten(submitted)) > 3
    /\ Len(submitted) >= 2
    /\ \E k \in DOMAIN submitted : Len(submitted[k]) >= 2

\* ---- C36
\* The fields of the metadata list that carry synonyms.
SynonymFields ==
    SelectSeq(metadata,
              LAMBDA f : f.key \notin {"type", "wiki_title", "wiki_file"})

SynonymKeys ==
    << "synonyms", "synonyms_2", "synonyms_3", "synonyms_4", "synonyms_5",
       "synonyms_6", "synonyms_7", "synonyms_8", "synonyms_9", "synonyms_10",
       "synonyms_11", "synonyms_12", "synonyms_13", "synonyms_14",
       "synonyms_15" >>

\* C36: the metadata of an uploaded document carries the first 15 chunks of
\* chunkSynonyms, in order, under the keys synonyms, synonyms_2, ...,
\* synonyms_15, and no further chunk: never more than 15 such fields.
C36_FirstFifteenChunksKept ==
    metaPc = "done" =>
        LET all == chunkSynonyms(metaSynonyms, 255)
            kept == IF Len(all) < 15 THEN Len(all) ELSE 15
        IN  /\ Len(SynonymFields) = kept
            /\ Len(SynonymFields) <= 15
            /\ \A i \in DOMAIN SynonymFields :
                  /\ SynonymFields[i].key = SynonymKeys[i]
                  /\ SynonymFields[i].stringValue = all[i]

\* Seventeen terms, each a chunk of its own: two chunks are discarded.
C36_Witness ==
    /\ metaPc = "done"
    /\ Len(chunkSynonyms(metaSynonyms, 255)) = 17
    /\ Len(SynonymFields) = 15
    /\ SynonymFields[15].key = "synonyms_15"

\* ---- C37
\* C37: a query rewrite performed after a sync run has completed matches
\* the question against the index that this sync has written.
C37_RewriteUsesIndexOfLastSync ==
    (RewriteStarted /\ indexSyncs > 0
        /\ indexedAt \in {"idle", "ready", "find_store"}) =>
        relevant = FindLoop(indexFile, toLowerCase(question), <<>>)

\* ---- C39
\* C39: splitIntoSlackChunks terminates for every text and every maxSize of
\* at least 1: every step of a call either is a pass of the loop that
\* leaves remaining shorter by at least one character, or is the return,
\* so a text of n characters is returned after at most n passes.
C39_SplitTerminates ==
    [][splitPc = "loop" =>
          \/ /\ Len(remaining) > maxSize
             /\ Len(remaining') < Len(remaining)
             /\ splitPc' = "loop"
          \/ /\ Len(remaining) <= maxSize
             /\ splitPc' = "done"]_vars

\* Three passes with maxSize 1, each taking one character.
C39_Witness ==
    /\ splitPc = "done"
    /\ maxSize = 1
    /\ Len(slackText) = 4
    /\ Len(parts) = 4

\* ---- C40
\* C40: every message text sendSlackAnswer posts, the 'Part k of n' label
\* included, is at most SLACK_MAX_MESSAGE_SIZE (2800) characters long, and
\* the parts are posted in the order 1..n, one at a time: the text that is
\* awaited is the part that follows the ones Slack has received.
C40_PostsWithinLimitInOrder ==
    /\ \A i \in DOMAIN posts : Len(posts[i]) <= SLACK_MAX_MESSAGE_SIZE
    /\ Len(posting) <= SLACK_MAX_MESSAGE_SIZE
    /\ sendPc = "parts" =>
          /\ Len(posts) = sendIdx
          /\ posting = PartText(sendIdx + 1, Len(sendChunks),
                                sendChunks[sendIdx + 1])
          /\ \A i \in DOMAIN posts :
                posts[i] = PartText(i, Len(sendChunks), sendChunks[i])

====
